---- MODULE Spec2Model ----
(***************************************************************************)
(* WatchCow: the eBPF write probe (trace_write), the app-list rewriter     *)
(* (Interceptor.ProcessEvent, DataProcessor.InjectDockerApps), the         *)
(* borrowed-fd cache (PidfdManager) and the notifier's uncached send.      *)
(*                                                                         *)
(* A write payload is a binary prefix (a sequence of byte values) followed *)
(* by text (a string); byte offsets are 0-based as in the source.          *)
(***************************************************************************)
EXTENDS Integers, Sequences, FiniteSets, TLC

VARIABLES
    now,                \* wall clock, in seconds
    ring,               \* the BPF ring buffer: events submitted, not yet read
    ubuf,               \* T_SAC's user buffer of its last write, after the probe ran
    nWrites,            \* number of write(2) calls T_SAC has made
    pc,                 \* position of the ring-buffer task inside ProcessEvent
    cur,                \* the event being processed, with reqID, newFD, modifiedData
    eventsReceived,
    eventsProcessed,
    responsesInjected,
    trimSacPID,
    processedReqs,      \* Interceptor.processedReqs: reqID -> time of last rewrite
    dockerApps,         \* DataProcessor.dockerApps
    cachedFDs,          \* PidfdManager.cachedFDs: <<pid, fd>> -> local fd
    localFds,           \* this process's fd table: local fd -> open file description
    npc,                \* position of the notification task inside sendToFD
    nfd,                \* the notification task's target fd and its uncached handle
    nSent,              \* number of notifications started
    writes,             \* history: every write(2) made on a borrowed fd
    handled,            \* history: every capture event handled, with its outcome
    \* SendContainerNotification
    procfs,             \* /proc as the scan reads it: fd links, net/unix lines, peers
    stage,              \* position inside SendContainerNotification
    activeFDs,          \* fds: the descriptors findActiveSocketFDs returned
    idx,                \* index of the next descriptor in the broadcast loop
    successCount,
    attempts,           \* history: every sendToFD call, with its outcome
    message,            \* the message buildNotifyMessage returned last
    \* shutdown: main, Manager.Stop, Manager.processEvents
    mainPc,             \* 0: main waits on sigChan; k: next of its shutdown steps
    monitorOK,          \* docker.NewMonitor succeeded, so its Stop is deferred
    stopChClosed,       \* Manager.stopCh is closed
    ctxDone,            \* the root context is cancelled
    released,           \* history: the capture resources released, in order
    taskPc,             \* position of processEvents: select, read, process, done
    records,            \* records in the ring buffer that Read has not returned
    sinceSignal,        \* events whose processing ended after the signal
    sinceStop,          \* events whose processing ended after close(stopCh)
    taskEnd,            \* how processEvents returned
    logged,             \* "Ring buffer error" lines logged
    taskFail,           \* what failed in the turn of the loop that just ended
    \* docker.Monitor
    engine,             \* the Docker engine: full container id -> name, labels, status,
                        \* and last, the stream position of its latest event
    installer,          \* m.installer is not nil
    scanned,            \* scanContainers has run; the event stream is open
    containers,         \* m.containers: 12-character id -> ContainerState
    starts,             \* the handleContainerStart goroutines that are running
    ops,                \* history: every operation sent to m.opQueue
    marked,             \* container ids the generator has marked installed
    notified,           \* history: every notification the monitor triggered
    nEvents,            \* number of Docker events handled
    lastEvent,          \* history: the Docker event handled last
    \* injectResponse on a given /proc
    borrow,             \* history: the last borrow of injectResponse, and whether
                        \* the descriptor it returned is still to be closed
    \* SendContainerNotification's lookup of the pid, beside ProcessEvent
    lookup,             \* where the lookup is, its local pid, and history: the pid
                        \* of the capture event processed last
    \* Monitor.opQueue, its worker and the callers of queueOperation
    opq                 \* the channel, the worker, the callers, stopCh, and history:
                        \* the operations in the order queued and executed

interceptVars == <<now, ring, ubuf, nWrites, pc, cur, eventsReceived, eventsProcessed,
                   responsesInjected, trimSacPID, processedReqs, dockerApps, cachedFDs,
                   localFds, npc, nfd, nSent, writes, handled>>

notifyVars == <<procfs, stage, activeFDs, idx, successCount, attempts, message>>

stopVars == <<mainPc, monitorOK, stopChClosed, ctxDone, released, taskPc, records,
              sinceSignal, sinceStop, taskEnd, logged, taskFail>>

monitorVars == <<engine, installer, scanned, containers, starts, ops, marked, notified,
                 nEvents, lastEvent>>

otherVars == <<notifyVars, stopVars, monitorVars, borrow, lookup, opq>>

besideLookup == <<notifyVars, stopVars, monitorVars, borrow, opq>>

vars == <<interceptVars, otherVars>>

-----------------------------------------------------------------------------
(* Bounds of the model *)

MaxWrites == 2          \* write(2) calls by T_SAC in one behaviour
RingCap == 1            \* events the ring buffer holds before it drops
MaxTime == 5            \* the clock stops here
MaxNotify == 1          \* notifications sent in one behaviour
StopRingCap == 2        \* records the ring buffer holds during shutdown
MaxCount == 3           \* the counters of processed events stop here
MaxReadErrors == 1      \* failed reads of the ring buffer in one behaviour
MaxEvents == 3          \* Docker events in one behaviour
MaxClock == 61          \* the clock stops here when the dedup table is followed
MaxLookups == 3         \* notifications that look the pid up in one behaviour
MaxCallers == 3         \* goroutines that call queueOperation in one behaviour
QueueCap == 2           \* operations opQueue buffers before a send blocks
MaxBorrows == 2         \* calls of injectResponse in one behaviour

-----------------------------------------------------------------------------
(* Program constants *)

FLAG_APPSTORE == 1
FLAG_NOTIFY == 2
MAX_DATA_SIZE == 4096
DedupWindow == 5        \* 5*time.Second in shouldSkipRequest
EvictAge == 60          \* entries older than one minute are deleted
MinDataLen == 20        \* ProcessEvent skips events with DataLen <= 20
AppJSONBase == 187      \* bytes of json.Marshal(AppInfo{}) with every string empty
RespJSONBase == 52      \* bytes of json.Marshal(Response{}) around result, reqid, list
BraceByte == 123        \* '{'

NoFD == -1              \* the fd returned with an error
NoPos == -1             \* findJSONStart: no '{' in the data
Closed == "closed"      \* a local fd number that is not open

Min(a, b) == IF a < b THEN a ELSE b

HasFlag(flags, bit) == (flags \div bit) % 2 = 1

RECURSIVE SumSeq(_)
SumSeq(s) == IF s = <<>> THEN 0 ELSE Head(s) + SumSeq(Tail(s))

-----------------------------------------------------------------------------
(* JSON text of the app-list response, as T_SAC writes it *)

\* One list element as T_SAC writes it: the AppInfo fields, plus, when
\* e.extra # "", one more field that AppInfo does not declare.
ElemText(e) ==
    "{\"appName\":\"" \o e.appName \o "\",\"appID\":\"\",\"entryName\":\"\"," \o
    "\"title\":\"\",\"desc\":\"\",\"icon\":\"\",\"type\":\"\",\"uri\":null," \o
    "\"microApp\":false,\"nativeApp\":false,\"fullUrl\":\"\",\"status\":\"\"," \o
    "\"fileTypes\":null,\"isDisplay\":false" \o
    (IF e.extra = "" THEN "" ELSE ",\"" \o e.extra \o "\":1") \o "}"

RECURSIVE ListText(_)
ListText(l) ==
    IF l = <<>> THEN ""
    ELSE ElemText(Head(l)) \o (IF Tail(l) = <<>> THEN "" ELSE ",") \o ListText(Tail(l))

\* The text of a payload of the given form.
PayloadText(form, result, reqid, list) ==
    CASE form = "applist" ->
            "{\"data\":{\"result\":\"" \o result \o "\",\"reqid\":\"" \o reqid \o
            "\",\"data\":{\"list\":[" \o ListText(list) \o "]}}}"
      [] form = "listfirst" ->
            "{\"data\":{\"data\":{\"list\":[" \o ListText(list) \o "]},\"result\":\"" \o
            result \o "\",\"reqid\":\"" \o reqid \o "\"}}"
      [] form = "cut" ->      \* the head of an app-list response, cut before its end
            "{\"data\":{\"result\":\"" \o result \o "\",\"reqid\":\"" \o reqid \o
            "\",\"data\":{\"list\":[" \o ListText(list)
      [] form = "nolist" ->
            "{\"data\":{\"result\":\"" \o result \o "\",\"reqid\":\"" \o reqid \o "\"}}"
      [] form = "notify" ->
            "{\"from\":\"trim.sac\",\"reqid\":\"" \o reqid \o "\",\"notify\":[" \o
            ListText(list) \o "]}"
      [] OTHER -> "ping"

\* What encoding/json makes of that text: valid or not and, when valid, the
\* members data.result, data.reqid and data.data.list of the document.
PayloadJSON(form, result, reqid, list) ==
    CASE form \in {"applist", "listfirst"} ->
            [valid |-> TRUE, result |-> result, reqid |-> reqid, list |-> list]
      [] form = "nolist" ->
            [valid |-> TRUE, result |-> result, reqid |-> reqid, list |-> <<>>]
      [] form = "notify" ->
            [valid |-> TRUE, result |-> "", reqid |-> "", list |-> <<>>]
      [] OTHER ->
            [valid |-> FALSE, result |-> "", reqid |-> "", list |-> <<>>]

\* A binary framing prefix of n bytes; when n >= 12 its bytes 10-11 hold the
\* length of the JSON that follows, little-endian.
Prefix(n, jsonLen) ==
    [i \in 1..n |-> IF n >= 12 /\ i = 11 THEN jsonLen % 256
                    ELSE IF n >= 12 /\ i = 12 THEN (jsonLen \div 256) % 256
                    ELSE 0]

LIST_PATTERN == "\"data\":{\"list\":["
REQID_PATTERN == "\"reqid\":\""
NOTIFY_PATTERN == "\"notify\":["
RESULT_SUCC == "\"result\":\"succ\""
REQID_KEY == "\"reqid\""
LIST_KEY == "\"list\":["
BRACE == "{"

Patterns == {LIST_PATTERN, REQID_PATTERN, NOTIFY_PATTERN, RESULT_SUCC, REQID_KEY,
             LIST_KEY, BRACE}

\* The offsets in text at which pat occurs.
Occurrences(text, pat) ==
    {i \in 0..(Len(text) - Len(pat)) : SubSeq(text, i + 1, i + Len(pat)) = pat}

\* A buffer: the prefix bytes, the text, what encoding/json makes of the text,
\* and at, the offsets in the buffer at which each pattern occurs in the text.
MkPayload(n, form, result, reqid, list) ==
    LET text == PayloadText(form, result, reqid, list) IN
    [pre  |-> Prefix(n, Len(text)),
     text |-> text,
     json |-> PayloadJSON(form, result, reqid, list),
     at   |-> [pat \in Patterns |-> {n + i : i \in Occurrences(text, pat)}]]

EmptyData == [pre |-> <<>>, text |-> "", json |-> PayloadJSON("none", "", "", <<>>),
              at |-> [pat \in Patterns |-> {}]]

DataLen(d) == Len(d.pre) + Len(d.text)

\* The bytes data[i .. i+Len(pat)-1] are the characters of pat.
MatchAt(d, i, pat) == i \in d.at[pat]

\* strings.Contains
Contains(d, pat) == d.at[pat] # {}

-----------------------------------------------------------------------------
(* The kernel probe: trace_write *)

\* The comparison of comm with "trim_sac" covers sizeof(target_comm) - 1 bytes.
CommMatches(comm) == Len(comm) >= 8 /\ SubSeq(comm, 1, 8) = "trim_sac"

\* read_len: count capped at MAX_DATA_SIZE, then masked with 0xFFF.
ReadLen(count) ==
    IF count > 0 /\ count < 2147483647
    THEN Min(count, MAX_DATA_SIZE) % 4096
    ELSE 0

\* The first n bytes of a buffer (bpf_probe_read_user of n bytes).
Take(d, n) ==
    IF n >= DataLen(d) THEN d
    ELSE IF n = 0 THEN EmptyData
    ELSE [pre  |-> SubSeq(d.pre, 1, Min(n, Len(d.pre))),
          text |-> SubSeq(d.text, 1, n - Min(n, Len(d.pre))),
          json |-> EmptyData.json,
          at   |-> [pat \in Patterns |-> {i \in d.at[pat] : i + Len(pat) <= n}]]

\* The least offset below bound at which pat matches, or NoPos.
FirstMatch(d, bound, pat) ==
    LET hits == {i \in d.at[pat] : i < bound} IN
    IF hits = {} THEN NoPos ELSE CHOOSE i \in hits : \A j \in hits : i <= j

\* The app-list probe: the flag, and the offset in the user buffer that
\* bpf_probe_write_user overwrites with XXXX (NoPos when it does not).
ProbeAppStore(data, data_len) ==
    LET i == IF data_len > 100
             THEN FirstMatch(data, Min(200, data_len - 16), LIST_PATTERN)
             ELSE NoPos
        k == IF i # NoPos
             THEN FirstMatch(data, Min(150, data_len - 40), REQID_PATTERN)
             ELSE NoPos
    IN  [flag |-> IF i # NoPos THEN FLAG_APPSTORE ELSE 0,
         poke |-> IF k # NoPos THEN k + 9 + 24 ELSE NoPos]

ProbeNotify(data, data_len) ==
    IF data_len > 50 /\ FirstMatch(data, Min(200, data_len - 10), NOTIFY_PATTERN) # NoPos
    THEN FLAG_NOTIFY ELSE 0

\* The text from offset p (0-based) up to the next double quote.
RECURSIVE ValueFrom(_, _)
ValueFrom(text, p) ==
    IF p >= Len(text) \/ SubSeq(text, p + 1, p + 1) = "\""
    THEN ""
    ELSE SubSeq(text, p + 1, p + 1) \o ValueFrom(text, p + 1)

\* The caller's buffer after bpf_probe_write_user has put XXXX at offset pos.
Poked(d, pos) ==
    IF pos = NoPos \/ pos < Len(d.pre) \/ pos + 4 > DataLen(d) THEN d
    ELSE LET p    == pos - Len(d.pre)
             text == SubSeq(d.text, 1, p) \o "XXXX" \o SubSeq(d.text, p + 5, Len(d.text))
         IN  [d EXCEPT !.text = text,
                       !.json.reqid = IF d.json.valid /\ d.json.reqid # ""
                                      THEN ValueFrom(text, p - 24)
                                      ELSE @]

\* A probe that fills the event from the caller's buffer after the overwrite.
EventDataAfterPoke(d, data_len, poke) == Take(Poked(d, poke), data_len)

\* event->data is filled by bpf_probe_read_user before the patterns are searched
\* and the caller's buffer is overwritten.
EventData(d, data_len, poke) == Take(d, data_len)

\* One run of the probe for write(fd, buf, count) by a task of process pid with
\* the given comm; buf holds the bytes d; ts is bpf_ktime_get_ns; readable says
\* whether bpf_probe_read_user succeeds; room says whether the ring buffer has a
\* free slot.
trace_write(pid, comm, fd, d, count, ts, readable, room) ==
    IF ~CommMatches(comm) \/ fd < 3 \/ fd > 1024 \/ ~room
    THEN [emit |-> FALSE, event |-> <<>>, poke |-> NoPos]
    ELSE
      LET read_len == ReadLen(count)
          data_len == IF readable THEN read_len ELSE 0
          data     == Take(d, data_len)
          app      == ProbeAppStore(data, data_len)
      IN  [emit  |-> TRUE,
           event |-> [pid |-> pid, fd |-> fd, timestamp |-> ts,
                      data_len |-> data_len,
                      flags |-> app.flag + ProbeNotify(data, data_len),
                      data |-> EventData(d, data_len, app.poke)],
           poke  |-> app.poke]

\* The probe's run for the write number nWrites + 1.
ProbeOutcome(pid, comm, fd, d, readable) ==
    trace_write(pid, comm, fd, d, DataLen(d), nWrites + 1, readable, Len(ring) < RingCap)

\* bpf_ringbuf_submit
SubmitEvent(r) ==
    /\ nWrites < MaxWrites
    /\ ring' = IF r.emit THEN Append(ring, r.event) ELSE ring
    /\ nWrites' = nWrites + 1

\* The caller's buffer after the probe ran: poke is the offset of XXXX.
UserBuffer(pid, comm, fd, d, readable, r) ==
    [pid |-> pid, comm |-> comm, fd |-> fd, data |-> d, readable |-> readable,
     ran |-> TRUE, emit |-> r.emit,
     flags |-> IF r.emit THEN r.event.flags ELSE 0,
     poke |-> r.poke]

-----------------------------------------------------------------------------
(* User-space recognition: DataProcessor.IsAppStoreListResponse *)

\* A check that leaves out the result field.
IsAppStoreListResponseLoose(data) ==
    /\ Contains(data, REQID_KEY)
    /\ Contains(data, LIST_KEY)

IsAppStoreListResponse(data) ==
    /\ Contains(data, RESULT_SUCC)
    /\ Contains(data, REQID_KEY)
    /\ Contains(data, LIST_KEY)

-----------------------------------------------------------------------------
(* DataProcessor: ExtractReqID, InjectDockerApps, UpdateDockerApps *)

Lowest(S) == CHOOSE n \in S : \A m \in S : n <= m

\* findJSONStart: the offset of the first '{' byte, or NoPos.
findJSONStart(data) ==
    LET inPre  == {i \in 1..Len(data.pre) : data.pre[i] = BraceByte}
        inText == data.at[BRACE]
    IN  IF inPre # {} THEN Lowest(inPre) - 1
        ELSE IF inText # {} THEN Lowest(inText)
        ELSE NoPos

\* json.Unmarshal of one list element into AppInfo: the declared fields are
\* kept, a field AppInfo does not declare is dropped.
UnmarshalApp(e) == [appName |-> e.appName, bulk |-> 0]

\* json.Unmarshal(data[jsonStart:], &response)
Unmarshal(data, jsonStart) ==
    IF jsonStart = Len(data.pre) /\ data.json.valid
    THEN [err |-> FALSE,
          Result |-> data.json.result,
          ReqID |-> data.json.reqid,
          List |-> [i \in 1..Len(data.json.list) |-> UnmarshalApp(data.json.list[i])]]
    ELSE [err |-> TRUE, Result |-> "", ReqID |-> "", List |-> <<>>]

ExtractReqID(data) ==
    LET jsonStart == findJSONStart(data)
        response  == Unmarshal(data, jsonStart)
    IN  IF jsonStart = NoPos \/ response.err
        THEN [err |-> TRUE, reqID |-> ""]
        ELSE [err |-> FALSE, reqID |-> response.ReqID]

\* json.Marshal of an AppInfo: the JSON object written, and its byte length.
\* bulk is the number of bytes in the string fields other than appName.
MarshalApp(a) == [appName |-> a.appName, bulk |-> a.bulk, extra |-> ""]

AppJSONLen(a) == AppJSONBase + Len(a.appName) + a.bulk

\* Byte length of json.Marshal(newResponse).
RespJSONLen(result, reqid, list) ==
    RespJSONBase + Len(result) + Len(reqid)
    + SumSeq([i \in 1..Len(list) |-> AppJSONLen(list[i])])
    + (IF Len(list) > 0 THEN Len(list) - 1 ELSE 0)

\* A copy that reads the slice twice.
SnapshotTorn(apps) == apps \o apps

\* The copy of dp.dockerApps appended under the read lock.
Snapshot(apps) == apps

\* A response whose reqid is left at its zero value.
CopyCorrelationNoReqID(response) == [Result |-> response.Result, ReqID |-> ""]

\* The result and reqid put into newResponse.
CopyCorrelation(response) == [Result |-> response.Result, ReqID |-> response.ReqID]

\* newLen := uint16(len(newJSON)); prefix[10], prefix[11] = low byte, high byte
PutLength(prefix, jsonLen) ==
    IF Len(prefix) >= 12
    THEN LET newLen == jsonLen % 65536 IN
         [prefix EXCEPT ![11] = newLen % 256, ![12] = (newLen \div 256) % 256]
    ELSE prefix

\* InjectDockerApps with the error of json.Unmarshal ignored.
InjectDockerAppsAnyway(originalData, apps) ==
    LET jsonStart == findJSONStart(originalData)
        response  == Unmarshal(originalData, jsonStart)
        newList   == response.List \o apps
        jsonLen   == RespJSONLen(response.Result, response.ReqID, newList)
    IN  IF jsonStart = NoPos
        THEN [err |-> TRUE]
        ELSE [err |-> FALSE,
              pre |-> PutLength(SubSeq(originalData.pre, 1, jsonStart), jsonLen),
              result |-> response.Result,
              reqid |-> response.ReqID,
              list |-> [i \in 1..Len(newList) |-> MarshalApp(newList[i])],
              jsonLen |-> jsonLen]

\* InjectDockerApps(originalData) with dp.dockerApps = apps. The result is
\* prefix || newJSON: the prefix bytes, the members of newJSON and its length.
InjectDockerApps(originalData, apps) ==
    LET jsonStart == findJSONStart(originalData)
        response  == Unmarshal(originalData, jsonStart)
        corr      == CopyCorrelation(response)
        newList   == response.List \o Snapshot(apps)
        jsonLen   == RespJSONLen(corr.Result, corr.ReqID, newList)
    IN  IF jsonStart = NoPos \/ response.err
        THEN [err |-> TRUE]
        ELSE [err |-> FALSE,
              pre |-> PutLength(SubSeq(originalData.pre, 1, jsonStart), jsonLen),
              result |-> corr.Result,
              reqid |-> corr.ReqID,
              list |-> [i \in 1..Len(newList) |-> MarshalApp(newList[i])],
              jsonLen |-> jsonLen]

-----------------------------------------------------------------------------
(* PidfdManager *)

isValidFD(table, fd) == table[fd] # Closed

\* pidfd_open takes the lowest free descriptor number, pidfd_getfd the next
\* one, and the pidfd is closed again. open is the set of descriptors open in
\* the target at this moment.
duplicateViaSystemCall(table, open, pid, fd) ==
    LET free == {n \in DOMAIN table : table[n] = Closed} IN
    IF fd \notin open \/ Cardinality(free) < 2
    THEN [err |-> TRUE, newFD |-> NoFD]
    ELSE [err |-> FALSE, newFD |-> Lowest(free \ {Lowest(free)})]

MapRemove(f, k) == [x \in DOMAIN f \ {k} |-> f[x]]
MapPut(f, k, v) == [x \in DOMAIN f \cup {k} |-> IF x = k THEN v ELSE f[x]]

\* DuplicateSocketFD without the delete of the entry that failed validation.
DuplicateSocketFDKeepStale(cache, table, open, pid, fd) ==
    LET key == <<pid, fd>>
        hit == key \in DOMAIN cache /\ isValidFD(table, cache[key])
        dup == duplicateViaSystemCall(table, open, pid, fd)
    IN  IF hit
        THEN [err |-> FALSE, newFD |-> cache[key], cache |-> cache, table |-> table]
        ELSE IF dup.err
        THEN [err |-> TRUE, newFD |-> NoFD, cache |-> cache, table |-> table]
        ELSE [err |-> FALSE, newFD |-> dup.newFD,
              cache |-> MapPut(cache, key, dup.newFD),
              table |-> [table EXCEPT ![dup.newFD] = key]]

\* DuplicateSocketFD: the descriptor returned, and the cache and the local fd
\* table afterwards.
DuplicateSocketFD(cache, table, open, pid, fd) ==
    LET key  == <<pid, fd>>
        hit  == key \in DOMAIN cache /\ isValidFD(table, cache[key])
        kept == IF key \in DOMAIN cache /\ ~hit THEN MapRemove(cache, key) ELSE cache
        dup  == duplicateViaSystemCall(table, open, pid, fd)
    IN  IF hit
        THEN [err |-> FALSE, newFD |-> cache[key], cache |-> cache, table |-> table]
        ELSE IF dup.err
        THEN [err |-> TRUE, newFD |-> NoFD, cache |-> kept, table |-> table]
        ELSE [err |-> FALSE, newFD |-> dup.newFD,
              cache |-> MapPut(kept, key, dup.newFD),
              table |-> [table EXCEPT ![dup.newFD] = key]]

commonFDs == 3..12

\* The loop of findAndDuplicateSocketFD over the descriptors fds, ascending.
\* open is the set of descriptors the loop does not pass over: those for
\* which GetSocketPath succeeds with a path that passes the test of the loop.
\* tried is history: the descriptors DuplicateSocketFD was called on.
RECURSIVE ScanFDs(_, _, _, _, _)
ScanFDs(fds, cache, table, open, pid) ==
    IF fds = {}
    THEN [err |-> TRUE, newFD |-> NoFD, cache |-> cache, table |-> table, fd |-> NoFD,
          tried |-> <<>>]
    ELSE LET fd == Lowest(fds)
             r  == DuplicateSocketFD(cache, table, open, pid, fd)
         IN  IF fd \notin open
             THEN ScanFDs(fds \ {fd}, cache, table, open, pid)
             ELSE IF ~r.err
             THEN [err |-> FALSE, newFD |-> r.newFD, cache |-> r.cache,
                   table |-> r.table, fd |-> fd, tried |-> <<fd>>]
             ELSE LET rest == ScanFDs(fds \ {fd}, r.cache, table, open, pid) IN
                  [rest EXCEPT !.tried = <<fd>> \o @]

findAndDuplicateSocketFD(cache, table, open, pid) ==
    ScanFDs(commonFDs, cache, table, open, pid)

\* The head of injectResponse: the primary borrow, then the fallback scan.
BorrowForInject(cache, table, open, pid, fd) ==
    LET r == DuplicateSocketFD(cache, table, open, pid, fd) IN
    IF ~r.err
    THEN [err |-> FALSE, newFD |-> r.newFD, cache |-> r.cache, table |-> r.table,
          fd |-> fd, tried |-> <<>>]
    ELSE findAndDuplicateSocketFD(r.cache, table, open, pid)

-----------------------------------------------------------------------------
(* Interceptor: dedup table *)

shouldSkipRequest(reqs, reqID, t) ==
    reqID \in DOMAIN reqs /\ t - reqs[reqID] < DedupWindow

\* markRequestProcessed without the loop that deletes old entries.
markRequestProcessedNoEvict(reqs, reqID, t) == MapPut(reqs, reqID, t)

markRequestProcessed(reqs, reqID, t) ==
    LET put == MapPut(reqs, reqID, t) IN
    [id \in {x \in DOMAIN put : ~(put[x] < t - EvictAge)} |-> put[id]]

SyntheticID(timestamp) == "ts_" \o ToString(timestamp)

\* ProcessEvent with the error of ExtractReqID ignored.
RequestIDAsExtracted(ext, timestamp) == ext.reqID

\* ProcessEvent: the id used for the dedup check, from the result of ExtractReqID.
RequestID(ext, timestamp) ==
    IF ext.err THEN SyntheticID(timestamp) ELSE ext.reqID

-----------------------------------------------------------------------------
(* Input sets *)

SacPid == 100

Files == [appName |-> "files", extra |-> ""]
Store == [appName |-> "store", extra |-> "badge"]   \* carries a field outside AppInfo

ShortReq == "abcdefghij"
Req1 == "req-0123456789abcdef01234567"
Req2 == "req-89abcdef0123456789abcdef"
LongReq == "req-0123456789abcdef0123456789abcdef0123"

NoBuf == [pid |-> 0, comm |-> "", fd |-> 0, data |-> EmptyData, readable |-> TRUE,
          ran |-> TRUE, emit |-> FALSE, flags |-> 0, poke |-> NoPos]

EmptyMap == [k \in {} |-> 0]

\* apps is history: the value of dockerApps when InjectDockerApps ran.
\* In writes, appsAtSend is the value of dockerApps when the write was made.
NoCur == [event |-> <<>>, reqID |-> "", newFD |-> NoFD, want |-> Closed,
          modifiedData |-> <<>>, apps |-> <<>>]

LocalFdNums == {10, 11, 12}

InitRest ==
    /\ now = 0
    /\ ring = <<>>
    /\ nWrites = 0
    /\ pc = "idle"
    /\ cur = NoCur
    /\ eventsReceived = 0
    /\ eventsProcessed = 0
    /\ responsesInjected = 0
    /\ trimSacPID = 0
    /\ processedReqs = EmptyMap
    /\ dockerApps = <<>>
    /\ cachedFDs = EmptyMap
    /\ localFds = [n \in LocalFdNums |-> Closed]
    /\ npc = "idle"
    /\ nfd = [fd |-> NoFD, dupFD |-> NoFD]
    /\ nSent = 0
    /\ writes = <<>>
    /\ handled = <<>>

-----------------------------------------------------------------------------
(* Notifier.buildNotifyMessage *)

HeaderLen == 37         \* bytes of NotifyHeader on the wire
Unknown == 512          \* 0x00000200, the value of Unknown1 and Unknown2
NotifyID == 1
NotifyCat == 1000
SpaceByte == 32         \* ' '

\* The four bytes written most significant first.
BE32(v) ==
    <<(v \div 16777216) % 256, (v \div 65536) % 256, (v \div 256) % 256, v % 256>>

\* binary.LittleEndian.PutUint32 of uint32(v), for 0 <= v < 2^31
LE32(v) ==
    <<v % 256, (v \div 256) % 256, (v \div 65536) % 256, (v \div 16777216) % 256>>

\* encoding/json's encoding of one character inside a string.
EscapeChar(c) ==
    CASE c = "\"" -> "\\\""
      [] c = "\\" -> "\\\\"
      [] c = "<" -> "\\u003c"
      [] c = ">" -> "\\u003e"
      [] c = "&" -> "\\u0026"
      [] OTHER -> c

RECURSIVE EscapeString(_)
EscapeString(str) ==
    IF Len(str) = 0 THEN ""
    ELSE EscapeChar(SubSeq(str, 1, 1)) \o EscapeString(SubSeq(str, 2, Len(str)))

\* json.Marshal of a Go string.
JSONString(str) == "\"" \o EscapeString(str) \o "\""

\* json.Marshal(notifyJSON)
NotifyJSONText(appName, state) ==
    "{\"from\":\"trim.sac\",\"eventId\":\"entryChange\",\"data\":{\"apps\":[{\"appName\":" \o
    JSONString(appName) \o ",\"state\":" \o JSONString(state) \o "}]}}"

\* []byte("\x00trim.sac\x00"): a zero byte, eight characters, a zero byte.
Trailing == <<0, "t", "r", "i", "m", ".", "s", "a", "c", 0>>

\* buildNotifyMessage(appName, state) when time.Now().Unix() = unix. The
\* message is header || json || trailing; appName, state and unix are kept
\* beside it as history.
buildNotifyMessage(appName, state, unix) ==
    LET jsonBytes == NotifyJSONText(appName, state)
        totalLen  == HeaderLen + Len(jsonBytes) + Len(Trailing)
    IN  [header   |-> LE32(totalLen) \o LE32(Unknown) \o LE32(Unknown) \o
                      LE32(unix) \o LE32(NotifyID) \o LE32(NotifyCat) \o
                      LE32(0) \o [i \in 1..8 |-> SpaceByte] \o <<0>>,
         json     |-> jsonBytes,
         trailing |-> Trailing,
         appName  |-> appName, state |-> state, unix |-> unix]

NoMessage == [header |-> <<>>, json |-> "", trailing |-> <<>>,
              appName |-> "", state |-> "", unix |-> 0]

MessageLen(m) == Len(m.header) + Len(m.json) + Len(m.trailing)

-----------------------------------------------------------------------------
(* Interceptor.findActiveSocketFDs: the scan of /proc/<pid>/fd *)

HasPrefix(str, p) == Len(str) >= Len(p) /\ SubSeq(str, 1, Len(p)) = p

HasSuffix(str, p) ==
    Len(str) >= Len(p) /\ SubSeq(str, Len(str) - Len(p) + 1, Len(str)) = p

\* strings.Contains on Go strings
StrContains(str, p) == Occurrences(str, p) # {}

Digits == {"0", "1", "2", "3", "4", "5", "6", "7", "8", "9"}

\* strconv.ParseUint(str, 10, 32) returns no error (values stay below 2^32).
ParseUintOK(str) ==
    Len(str) > 0 /\ \A i \in 1..Len(str) : SubSeq(str, i, i) \in Digits

\* lookupUnixSocketPathFromFile: lines[1] is the header; a line is the tuple
\* strings.Fields makes of it.
lookupUnixSocketPathFromFile(lines, inode) ==
    LET hits == {i \in 2..Len(lines) : Len(lines[i]) >= 7 /\ lines[i][7] = inode} IN
    IF hits = {} \/ Len(lines[Lowest(hits)]) < 8
    THEN [err |-> TRUE, path |-> ""]
    ELSE [err |-> FALSE, path |-> lines[Lowest(hits)][8]]

\* GetSocketPath: the daemon and T_SAC share one network namespace, so
\* /proc/net/unix and /proc/<pid>/net/unix have the same lines.
GetSocketPath(pfs, fd) ==
    IF fd \notin DOMAIN pfs.links
    THEN [err |-> TRUE, path |-> ""]
    ELSE LET target == pfs.links[fd]
             inode  == SubSeq(target, 9, Len(target) - 1)
             real   == lookupUnixSocketPathFromFile(pfs.unix, inode)
         IN  IF HasPrefix(target, "socket:[") /\ HasSuffix(target, "]") /\ ~real.err
             THEN [err |-> FALSE, path |-> real.path \o " (inode:" \o inode \o ")"]
             ELSE [err |-> FALSE, path |-> target]

getSocketDetailedInfo(pfs, socketPath) ==
    LET inode == SubSeq(socketPath, 9, Len(socketPath) - 1)
        hits  == {i \in 2..Len(pfs.unix) :
                     Len(pfs.unix[i]) >= 7 /\ pfs.unix[i][7] = inode}
    IN  IF ~HasPrefix(socketPath, "socket:[")
        THEN [isConnected |-> FALSE, Inode |-> "", State |-> ""]
        ELSE IF hits = {}
        THEN [isConnected |-> FALSE, Inode |-> inode, State |-> "not_found"]
        ELSE LET st == pfs.unix[Lowest(hits)][6] IN
             [isConnected |-> (st = "01" \/ st = "03"), Inode |-> inode, State |-> st]

\* A name test that forgets to exclude trim_sac.
IsTrimNameLoose(name) == StrContains(name, "trim")

\* hasTrimPeer: the test of the peer's process name.
IsTrimName(name) == StrContains(name, "trim") /\ ~StrContains(name, "trim_sac")

\* hasTrimPeer: pfs.peers is what getPeerInodeUsingCGO followed by
\* findProcessByInode resolve; an inode outside its domain has no peer.
hasTrimPeer(pfs, inode) ==
    /\ ParseUintOK(inode)
    /\ inode \in DOMAIN pfs.peers
    /\ IsTrimName(pfs.peers[inode])

\* One iteration of the loop of findActiveSocketFDs: is fdNum appended?
AcceptFD(pfs, fdNum) ==
    LET sp   == GetSocketPath(pfs, fdNum)
        info == getSocketDetailedInfo(pfs, sp.path)
    IN  /\ fdNum >= 3
        /\ ~sp.err
        /\ HasPrefix(sp.path, "socket:[")
        /\ info.isConnected
        /\ hasTrimPeer(pfs, info.Inode)

RECURSIVE ScanEntries(_, _)
ScanEntries(pfs, entries) ==
    IF entries = {} THEN <<>>
    ELSE LET fdNum == Lowest(entries) IN
         (IF AcceptFD(pfs, fdNum) THEN <<fdNum>> ELSE <<>>)
             \o ScanEntries(pfs, entries \ {fdNum})

findActiveSocketFDs(pfs) ==
    IF ~pfs.dirOK
    THEN [err |-> TRUE, fds |-> <<>>]
    ELSE [err |-> FALSE, fds |-> ScanEntries(pfs, DOMAIN pfs.links)]

-----------------------------------------------------------------------------
(* Shutdown: main's deferred calls, Manager.Stop, Manager.processEvents *)

\* m.links after LoadAndAttach: the sys_enter_write tracepoint.
Links == <<"sys_enter_write">>

StopOrderLinksFirst == <<"stopCh", "links", "ringbuf", "interceptor", "objs">>

\* Manager.Stop, in program order.
StopOrder == <<"stopCh", "ringbuf", "links", "interceptor", "objs">>

\* What main runs after <-sigChan returns: its deferred calls, last deferred
\* first, with Manager.Stop spelled out.
ShutdownSteps(monitor) ==
    (IF monitor THEN <<"dockerMonitor.Stop">> ELSE <<>>) \o StopOrder \o <<"cancel">>

SelectAny(done, stopped) ==
    {"default"} \cup (IF done \/ stopped THEN {"return"} ELSE {})

\* The select of processEvents: default runs only when neither channel is ready.
Select(done, stopped) == IF done \/ stopped THEN {"return"} ELSE {"default"}

\* m.ringbuf.Read(): the closed sentinel once the reader is closed, else a
\* record when there is one (it blocks otherwise), or another error.
Read(closed, n, errs) ==
    IF closed THEN {"ErrClosed"}
    ELSE (IF n > 0 THEN {"record"} ELSE {}) \cup
         (IF errs < MaxReadErrors THEN {"error"} ELSE {})

\* PidfdManager.Close: every cached descriptor is closed, the cache is reset.
PidfdManagerClose(cache, table) ==
    [cache |-> EmptyMap,
     table |-> [n \in DOMAIN table |->
                   IF \E k \in DOMAIN cache : cache[k] = n THEN Closed ELSE table[n]]]

Saturate(n) == IF n < MaxCount THEN n + 1 ELSE n

\* processEvents with a return in place of continue.
OnFailureReturn == "done"

\* processEvents after a failure in one turn of the loop: continue, or the
\* end of the loop body, both back to the select.
OnFailure == "select"

StopIdle ==
    /\ mainPc = 0
    /\ monitorOK = FALSE
    /\ stopChClosed = FALSE
    /\ ctxDone = FALSE
    /\ released = <<>>
    /\ taskPc = "select"
    /\ records = 0
    /\ sinceSignal = 0
    /\ sinceStop = 0
    /\ taskEnd = "running"
    /\ logged = 0
    /\ taskFail = "none"

-----------------------------------------------------------------------------
(* docker.Monitor: labels, shouldInstall, the tracked containers *)

\* labels[key] of a Go map: the empty string when the key is absent.
Label(labels, key) == IF key \in DOMAIN labels THEN labels[key] ELSE ""

getAppNameFromLabels(labels, containerName) ==
    IF Label(labels, "watchcow.appname") = ""
    THEN "watchcow." \o containerName
    ELSE Label(labels, "watchcow.appname")

InstallModeOK(labels) ==
    Label(labels, "watchcow.install") \in {"fnos", "true", ""}

shouldInstallAnyEnable(labels) == InstallModeOK(labels)

shouldInstall(labels) ==
    IF Label(labels, "watchcow.enable") # "true" THEN FALSE ELSE InstallModeOK(labels)

\* containerID[:12] in handleDockerEvent and scanContainers.
ShortID(id) == IF Len(id) > 12 THEN SubSeq(id, 1, 12) ELSE id

\* queueOperation: without an installer nothing is queued and nil is returned.
queueOperation(queue, hasInstaller, opType, appName) ==
    IF hasInstaller THEN Append(queue, [Type |-> opType, AppName |-> appName])
    ELSE queue

ContainerState(id, name, appName, isInstalled, labels) ==
    [ContainerID |-> id, ContainerName |-> name, AppName |-> appName,
     Installed |-> isInstalled, Labels |-> labels]

NoEvent == [action |-> "none", id |-> "", labels |-> EmptyMap, inspected |-> FALSE]

MonitorIdle ==
    /\ engine = EmptyMap
    /\ installer = FALSE
    /\ scanned = FALSE
    /\ containers = EmptyMap
    /\ starts = {}
    /\ ops = <<>>
    /\ marked = {}
    /\ notified = <<>>
    /\ nEvents = 0
    /\ lastEvent = NoEvent

-----------------------------------------------------------------------------
(* injectResponse: the borrow and the fallback scan, on a given /proc *)

\* findAndDuplicateSocketFD: the test of the path GetSocketPath returned.
IsTargetSocket(path) ==
    StrContains(path, "trim_sac.socket") \/ StrContains(path, "socket:[")

\* The descriptors the loop of findAndDuplicateSocketFD does not pass over.
ScanCandidates(pfs) ==
    {fd \in commonFDs : /\ ~GetSocketPath(pfs, fd).err
                        /\ IsTargetSocket(GetSocketPath(pfs, fd).path)}

\* The head of injectResponse. primary is what DuplicateSocketFD returned for
\* the captured descriptor; scanned says whether findAndDuplicateSocketFD ran.
injectResponseBorrow(cache, table, pfs, pid, fd) ==
    LET r == DuplicateSocketFD(cache, table, DOMAIN pfs.links, pid, fd)
        f == findAndDuplicateSocketFD(r.cache, table, ScanCandidates(pfs), pid)
    IN  IF ~r.err
        THEN [err |-> FALSE, newFD |-> r.newFD, cache |-> r.cache, table |-> r.table,
              fd |-> fd, tried |-> <<>>, scanned |-> FALSE, primary |-> r]
        ELSE [err |-> f.err, newFD |-> f.newFD, cache |-> f.cache, table |-> f.table,
              fd |-> f.fd, tried |-> f.tried, scanned |-> TRUE, primary |-> r]

\* What the cache holds for a key when DuplicateSocketFD is called.
CacheEntry(cache, table, key) ==
    IF key \notin DOMAIN cache THEN "none"
    ELSE IF isValidFD(table, cache[key]) THEN "valid" ELSE "stale"

NoBorrow == [n |-> 0, fd |-> NoFD, held |-> FALSE]

BorrowIdle == borrow = NoBorrow

\* SendContainerNotification: i.trimSacPID = pid after the scan.
StorePid(known, found) == found

NoLookup == [at |-> "idle", pid |-> 0, lastEvent |-> 0, n |-> 0]

LookupIdle == lookup = NoLookup

\* `case op := <-m.opQueue` taking the operation sent last.
ReceiveLast(queue) == queue[Len(queue)]

\* `case op := <-m.opQueue`: a channel hands out what was sent first.
Receive(queue) == Head(queue)

\* The queue after the operation op has been received from it.
Without(queue, op) ==
    LET i == CHOOSE j \in 1..Len(queue) : queue[j] = op IN
    SubSeq(queue, 1, i - 1) \o SubSeq(queue, i + 1, Len(queue))

\* The cases of the worker's select that are ready.
WorkerSelect(stopped, queue) ==
    (IF stopped THEN {"return"} ELSE {}) \cup (IF queue # <<>> THEN {"receive"} ELSE {})

Callers == 1..MaxCallers

NoOp == [caller |-> 0, Type |-> ""]

NoQueue ==
    [queue    |-> <<>>,
     worker   |-> [at |-> "select", op |-> NoOp],
     callers  |-> [k \in Callers |-> [at |-> "idle", Type |-> "", got |-> NoOp]],
     resultCh |-> [k \in Callers |-> <<>>],
     stopped  |-> FALSE,
     queued   |-> <<>>,
     executed |-> <<>>]

QueueIdle == opq = NoQueue

-----------------------------------------------------------------------------
(* SendContainerNotification on a given /proc *)

\* What one descriptor of T_SAC may be: link is "socket", "file" or "none"
\* (not open); listed says whether /proc/net/unix has a line for its inode, st
\* and path are the St and Path fields of that line, peer the name of the
\* process holding the peer socket ("" when the peer inode is not resolved).
FdKind(link, listed, st, path, peer) ==
    [link |-> link, listed |-> listed, st |-> st, path |-> path, peer |-> peer]

FdKinds ==
    {FdKind("none", FALSE, "", "", ""),
     FdKind("file", FALSE, "", "", ""),
     FdKind("socket", FALSE, "", "", ""),                      \* not a Unix socket
     FdKind("socket", TRUE, "01", "", "trim"),
     FdKind("socket", TRUE, "03", "", "trim_app"),
     FdKind("socket", TRUE, "02", "", "trim"),
     FdKind("socket", TRUE, "01", "", "trim_sac"),
     FdKind("socket", TRUE, "03", "", "nginx"),
     FdKind("socket", TRUE, "01", "", ""),
     FdKind("socket", TRUE, "01", "/var/run/trim_sac.socket", "trim"),
     FdKind("socket", TRUE, "03", "@trim_notify", "trim")}     \* abstract name

ScanFdNums == {1, 3, 4}

InodeOf(fd) == "70" \o ToString(fd)

UnixHeader == <<"Num", "RefCount", "Protocol", "Flags", "Type", "St", "Inode", "Path">>

UnixLine(fd, k) ==
    <<"0000000000000000:", "00000003", "00000000", "00000000", "0001", k.st, InodeOf(fd)>>
        \o (IF k.path = "" THEN <<>> ELSE <<k.path>>)

RECURSIVE UnixLines(_, _)
UnixLines(kindOf, rest) ==
    IF rest = {} THEN <<>>
    ELSE LET fd == Lowest(rest) IN
         (IF kindOf[fd].listed THEN <<UnixLine(fd, kindOf[fd])>> ELSE <<>>)
             \o UnixLines(kindOf, rest \ {fd})

\* The /proc contents for a descriptor table; kindOf is kept as history.
MkProcfs(kindOf, dirOK) ==
    LET open    == {fd \in DOMAIN kindOf : kindOf[fd].link # "none"}
        peered  == {fd \in open : kindOf[fd].link = "socket" /\ kindOf[fd].peer # ""}
    IN  [dirOK  |-> dirOK,
         links  |-> [fd \in open |-> IF kindOf[fd].link = "socket"
                                     THEN "socket:[" \o InodeOf(fd) \o "]"
                                     ELSE "/dev/null"],
         unix   |-> <<UnixHeader>> \o UnixLines(kindOf, DOMAIN kindOf),
         peers  |-> [ino \in {InodeOf(fd) : fd \in peered} |->
                        kindOf[CHOOSE fd \in peered : InodeOf(fd) = ino].peer],
         kindOf |-> kindOf]

NoProcfs == MkProcfs(EmptyMap, TRUE)

NotifyNames == {"nginx", "a\"b"}
NotifyStates == {"running", "stopped"}
UnixTimes == {7, 1700000000}   \* time.Now().Unix(), below 2^31

IdleStage == [at |-> "idle", containerName |-> "", state |-> "", scanned |-> FALSE,
              result |-> "none"]

NotifyIdle ==
    /\ stage = IdleStage
    /\ activeFDs = <<>>
    /\ idx = 1
    /\ successCount = 0
    /\ attempts = <<>>
    /\ message = NoMessage

OtherInit ==
    /\ procfs = NoProcfs
    /\ NotifyIdle
    /\ StopIdle
    /\ MonitorIdle
    /\ BorrowIdle
    /\ LookupIdle
    /\ QueueIdle

NotifyInit ==
    /\ InitRest
    /\ ubuf = NoBuf
    /\ NotifyIdle
    /\ StopIdle
    /\ MonitorIdle
    /\ BorrowIdle
    /\ LookupIdle
    /\ QueueIdle
    /\ \E kindOf \in [ScanFdNums -> FdKinds], dirOK \in BOOLEAN :
          procfs = MkProcfs(kindOf, dirOK)

NotifyUnchanged ==
    UNCHANGED <<now, ring, ubuf, nWrites, pc, cur, eventsReceived, eventsProcessed,
                responsesInjected, processedReqs, dockerApps, cachedFDs, localFds, npc,
                nfd, nSent, writes, handled, procfs, stopVars, monitorVars, borrow, lookup,
                opq>>

\* The value SendContainerNotification returns after the broadcast loop.
BroadcastResultAlways(count) == "ok"

BroadcastResult(count) == IF count = 0 THEN "fail" ELSE "ok"

\* SendContainerNotification up to the broadcast loop: the pid, then the scan.
StartNotification ==
    /\ stage.at = "idle"
    /\ \E containerName \in NotifyNames, state \in NotifyStates, found \in BOOLEAN :
          LET pid == IF trimSacPID # 0 THEN trimSacPID
                     ELSE IF found THEN SacPid ELSE 0
              r   == findActiveSocketFDs(procfs)
              go  == pid # 0 /\ ~r.err /\ Len(r.fds) > 0
          IN  /\ trimSacPID' = pid
              /\ activeFDs' = IF pid # 0 /\ ~r.err THEN r.fds ELSE <<>>
              /\ stage' = [at |-> IF go THEN "send" ELSE "done",
                           containerName |-> containerName, state |-> state,
                           scanned |-> (pid # 0 /\ ~r.err),
                           result |-> IF go THEN "none" ELSE "fail"]
    /\ UNCHANGED <<idx, successCount, attempts, message>>
    /\ NotifyUnchanged

\* One iteration of the broadcast loop: sendToActiveClient builds the message,
\* reading the clock, which does not go back, and sendToFD duplicates the
\* descriptor, writes and closes the duplicate.
SendToActiveClient ==
    /\ stage.at = "send"
    /\ idx <= Len(activeFDs)
    /\ \E unix \in UnixTimes, open \in {DOMAIN procfs.links, {}},
          res \in {"ok", "partial", "error"} :
          LET fd      == activeFDs[idx]
              dup     == duplicateViaSystemCall(localFds, open, trimSacPID, fd)
              outcome == IF dup.err THEN "dupfail" ELSE res
              built   == buildNotifyMessage(stage.containerName, stage.state, unix)
          IN  /\ \A i \in 1..Len(attempts) : attempts[i].unix <= unix
              /\ message' = built
              /\ attempts' = Append(attempts, [fd |-> fd, outcome |-> outcome,
                                               unix |-> unix, message |-> built])
              /\ successCount' = successCount + (IF outcome = "ok" THEN 1 ELSE 0)
              /\ idx' = idx + 1
    /\ UNCHANGED <<trimSacPID, stage, activeFDs>>
    /\ NotifyUnchanged

\* The loop is over: SendContainerNotification returns.
EndNotification ==
    /\ stage.at = "send"
    /\ idx > Len(activeFDs)
    /\ stage' = [stage EXCEPT !.at = "done", !.result = BroadcastResult(successCount)]
    /\ UNCHANGED <<trimSacPID, activeFDs, idx, successCount, attempts, message>>
    /\ NotifyUnchanged

NotifyNext == StartNotification \/ SendToActiveClient \/ EndNotification

SpecNotify == NotifyInit /\ [][NotifyNext]_vars

-----------------------------------------------------------------------------
(* Shutdown: main from <-sigChan on, beside the ring-buffer task and the   *)
(* kernel probe                                                            *)

\* The daemon runs: main waits for the signal, processEvents is at its select,
\* and the interceptor may hold one borrowed descriptor in its cache.
StopInit ==
    /\ now = 0
    /\ ring = <<>>
    /\ ubuf = NoBuf
    /\ nWrites = 0
    /\ pc = "idle"
    /\ cur = NoCur
    /\ eventsReceived = 0
    /\ eventsProcessed = 0
    /\ responsesInjected = 0
    /\ trimSacPID = 0
    /\ processedReqs = EmptyMap
    /\ dockerApps = <<>>
    /\ \E held \in BOOLEAN :
          LET r == DuplicateSocketFD(EmptyMap, [n \in LocalFdNums |-> Closed], {5},
                                     SacPid, 5)
          IN  /\ cachedFDs = IF held THEN r.cache ELSE EmptyMap
              /\ localFds = IF held THEN r.table ELSE [n \in LocalFdNums |-> Closed]
    /\ npc = "idle"
    /\ nfd = [fd |-> NoFD, dupFD |-> NoFD]
    /\ nSent = 0
    /\ writes = <<>>
    /\ handled = <<>>
    /\ procfs = NoProcfs
    /\ NotifyIdle
    /\ mainPc = 0
    /\ monitorOK \in BOOLEAN
    /\ stopChClosed = FALSE
    /\ ctxDone = FALSE
    /\ released = <<>>
    /\ taskPc = "select"
    /\ records = 0
    /\ sinceSignal = 0
    /\ sinceStop = 0
    /\ taskEnd = "running"
    /\ logged = 0
    /\ taskFail = "none"
    /\ MonitorIdle
    /\ BorrowIdle
    /\ LookupIdle
    /\ QueueIdle

StopUnchanged ==
    UNCHANGED <<now, ring, ubuf, nWrites, pc, cur, eventsReceived, eventsProcessed,
                responsesInjected, trimSacPID, processedReqs, dockerApps, npc, nfd,
                nSent, writes, handled, notifyVars, monitorOK, monitorVars, borrow,
                lookup, opq>>

Has(log, name) == \E i \in 1..Len(log) : log[i] = name

ReaderClosed == Has(released, "ringbuf")
Attached == \E i \in 1..Len(Links) : ~Has(released, Links[i])

\* main has returned: the process is gone, and every task with it.
Returned == mainPc > Len(ShutdownSteps(monitorOK))

NextStep ==
    IF mainPc \in 1..Len(ShutdownSteps(monitorOK))
    THEN ShutdownSteps(monitorOK)[mainPc] ELSE "none"

\* SIGINT or SIGTERM arrives: <-sigChan returns and main starts to return.
Signal ==
    /\ mainPc = 0
    /\ mainPc' = 1
    /\ UNCHANGED <<stopChClosed, ctxDone, released, taskPc, records, sinceSignal,
                   sinceStop, taskEnd, logged, taskFail, cachedFDs, localFds>>
    /\ StopUnchanged

\* defer dockerMonitor.Stop()
MonitorStop ==
    /\ NextStep = "dockerMonitor.Stop"
    /\ mainPc' = mainPc + 1
    /\ UNCHANGED <<stopChClosed, ctxDone, released, taskPc, records, sinceSignal,
                   sinceStop, taskEnd, logged, taskFail, cachedFDs, localFds>>
    /\ StopUnchanged

\* Manager.Stop: close(m.stopCh)
CloseStopCh ==
    /\ NextStep = "stopCh"
    /\ stopChClosed' = TRUE
    /\ mainPc' = mainPc + 1
    /\ UNCHANGED <<ctxDone, released, taskPc, records, sinceSignal, sinceStop,
                   taskEnd, logged, taskFail, cachedFDs, localFds>>
    /\ StopUnchanged

\* Manager.Stop: m.ringbuf.Close()
CloseRingbuf ==
    /\ NextStep = "ringbuf"
    /\ released' = Append(released, "ringbuf")
    /\ mainPc' = mainPc + 1
    /\ UNCHANGED <<stopChClosed, ctxDone, taskPc, records, sinceSignal, sinceStop,
                   taskEnd, logged, taskFail, cachedFDs, localFds>>
    /\ StopUnchanged

\* Manager.Stop: the loop that closes every link.
DetachLinks ==
    /\ NextStep = "links"
    /\ released' = released \o Links
    /\ mainPc' = mainPc + 1
    /\ UNCHANGED <<stopChClosed, ctxDone, taskPc, records, sinceSignal, sinceStop,
                   taskEnd, logged, taskFail, cachedFDs, localFds>>
    /\ StopUnchanged

\* Manager.Stop: m.interceptor.Close()
CloseInterceptor ==
    /\ NextStep = "interceptor"
    /\ LET r == PidfdManagerClose(cachedFDs, localFds) IN
       /\ cachedFDs' = r.cache
       /\ localFds' = r.table
    /\ released' = Append(released, "interceptor")
    /\ mainPc' = mainPc + 1
    /\ UNCHANGED <<stopChClosed, ctxDone, taskPc, records, sinceSignal, sinceStop,
                   taskEnd, logged, taskFail>>
    /\ StopUnchanged

\* Manager.Stop: m.objs.Close()
CloseObjs ==
    /\ NextStep = "objs"
    /\ released' = Append(released, "objs")
    /\ mainPc' = mainPc + 1
    /\ UNCHANGED <<stopChClosed, ctxDone, taskPc, records, sinceSignal, sinceStop,
                   taskEnd, logged, taskFail, cachedFDs, localFds>>
    /\ StopUnchanged

\* defer cancel()
Cancel ==
    /\ NextStep = "cancel"
    /\ ctxDone' = TRUE
    /\ mainPc' = mainPc + 1
    /\ UNCHANGED <<stopChClosed, released, taskPc, records, sinceSignal, sinceStop,
                   taskEnd, logged, taskFail, cachedFDs, localFds>>
    /\ StopUnchanged

\* processEvents at the top of its loop.
TaskSelect ==
    /\ ~Returned
    /\ taskPc = "select"
    /\ \E branch \in Select(ctxDone, stopChClosed) :
          /\ taskPc' = IF branch = "return" THEN "done" ELSE "read"
          /\ taskEnd' = IF branch = "return" THEN "stopped" ELSE taskEnd
          /\ taskFail' = IF branch = "return" THEN taskFail ELSE "none"
    /\ UNCHANGED <<mainPc, stopChClosed, ctxDone, released, records, sinceSignal,
                   sinceStop, logged, cachedFDs, localFds>>
    /\ StopUnchanged

\* processEvents inside m.ringbuf.Read(), and what it does with the result:
\* parseEvent on a record, which fails on one shorter than the event struct.
TaskRead ==
    /\ ~Returned
    /\ taskPc = "read"
    /\ \E res \in Read(ReaderClosed, records, logged), short \in BOOLEAN :
          /\ short => res = "record"
          /\ taskPc' = CASE res = "ErrClosed" -> "done"
                         [] res = "record"    -> IF short THEN OnFailure ELSE "process"
                         [] OTHER             -> OnFailure
          /\ taskEnd' = IF res = "ErrClosed" THEN "ErrClosed" ELSE taskEnd
          /\ records' = IF res = "record" THEN records - 1 ELSE records
          /\ logged' = IF res = "error" THEN logged + 1 ELSE logged
          /\ taskFail' = CASE res = "error" -> "read"
                           [] res = "record" /\ short -> "short"
                           [] OTHER -> taskFail
    /\ UNCHANGED <<mainPc, stopChClosed, ctxDone, released, sinceSignal, sinceStop,
                   cachedFDs, localFds>>
    /\ StopUnchanged

\* ProcessEvent returns, with an error (of the borrow, the JSON parse or the write)
\* or without.
TaskProcess ==
    /\ ~Returned
    /\ taskPc = "process"
    /\ \E err \in BOOLEAN :
          /\ taskPc' = IF err THEN OnFailure ELSE "select"
          /\ taskFail' = IF err THEN "process" ELSE taskFail
    /\ sinceSignal' = IF mainPc > 0 THEN Saturate(sinceSignal) ELSE sinceSignal
    /\ sinceStop' = IF stopChClosed THEN Saturate(sinceStop) ELSE sinceStop
    /\ UNCHANGED <<mainPc, stopChClosed, ctxDone, released, records, taskEnd, logged,
                   cachedFDs, localFds>>
    /\ StopUnchanged

\* The probe, while it is attached, submits an event for a write of T_SAC.
KernelSubmit ==
    /\ ~Returned
    /\ Attached
    /\ records < StopRingCap
    /\ records' = records + 1
    /\ UNCHANGED <<mainPc, stopChClosed, ctxDone, released, taskPc, sinceSignal,
                   sinceStop, taskEnd, logged, taskFail, cachedFDs, localFds>>
    /\ StopUnchanged

MainReturns ==
    MonitorStop \/ CloseStopCh \/ CloseRingbuf \/ DetachLinks \/ CloseInterceptor
        \/ CloseObjs \/ Cancel

StopNext ==
    Signal \/ MainReturns \/ TaskSelect \/ TaskRead \/ TaskProcess \/ KernelSubmit

\* Once the signal has arrived main runs its deferred calls to the end.
SpecStop == StopInit /\ [][StopNext]_vars /\ WF_vars(MainReturns)

\* The same, with the task's goroutine scheduled as long as it can run.
SpecLoop ==
    /\ StopInit
    /\ [][StopNext]_vars
    /\ WF_vars(MainReturns)
    /\ WF_vars(TaskSelect \/ TaskRead \/ TaskProcess)

-----------------------------------------------------------------------------
(* docker.Monitor: the initial scan, the Docker event stream and the       *)
(* handleContainerStart goroutines                                         *)

ContainerIDs == {"0123456789abcdef", "fedcba9876543210"}

ContainerName(id) == IF id = "0123456789abcdef" THEN "web" ELSE "db"

LabelSets ==
    {EmptyMap,
     "watchcow.enable" :> "true",
     "watchcow.enable" :> "false",
     ("watchcow.enable" :> "true") @@ ("watchcow.install" :> "none"),
     ("watchcow.enable" :> "true") @@ ("watchcow.install" :> "fnos")
         @@ ("watchcow.appname" :> "myapp")}

MonitorInit ==
    /\ InitRest
    /\ ubuf = NoBuf
    /\ procfs = NoProcfs
    /\ NotifyIdle
    /\ StopIdle
    /\ BorrowIdle
    /\ LookupIdle
    /\ QueueIdle
    /\ \E labelsOf \in [ContainerIDs -> LabelSets],
          statusOf \in [ContainerIDs -> {"created", "running"}] :
          engine = [id \in ContainerIDs |->
                       [name |-> ContainerName(id), labels |-> labelsOf[id],
                        status |-> statusOf[id], last |-> 0]]
    /\ installer \in BOOLEAN
    /\ scanned = FALSE
    /\ containers = EmptyMap
    /\ starts = {}
    /\ ops = <<>>
    /\ marked = {}
    /\ notified = <<>>
    /\ nEvents = 0
    /\ lastEvent = NoEvent

MonitorUnchanged ==
    UNCHANGED <<interceptVars, notifyVars, stopVars, installer, notified, borrow,
                lookup, opq>>

\* go m.handleContainerStart(ctx, containerID, containerName, labels)
Goroutine(n, id, name, labels) ==
    [n |-> n, id |-> id, name |-> name, labels |-> labels, at |-> "begin",
     appName |-> getAppNameFromLabels(labels, name)]

\* Monitor.Start: scanContainers starts a goroutine for every running
\* container that should be installed; then the event stream is opened.
ScanContainers ==
    /\ ~scanned
    /\ scanned' = TRUE
    /\ \E listed \in BOOLEAN :
          starts' = IF ~listed THEN starts
                    ELSE starts \cup
                         {Goroutine(0, ShortID(id), engine[id].name, engine[id].labels) :
                             id \in {c \in DOMAIN engine :
                                        /\ engine[c].status = "running"
                                        /\ shouldInstall(engine[c].labels)}}
    /\ UNCHANGED <<engine, containers, ops, marked, nEvents, lastEvent>>
    /\ MonitorUnchanged

\* A container starts: handleDockerEvent, case "start".
EventStart ==
    /\ scanned
    /\ nEvents < MaxEvents
    /\ \E c \in DOMAIN engine, inspected \in BOOLEAN :
          LET id     == ShortID(c)
              labels == engine[c].labels
          IN  /\ engine[c].status \in {"created", "exited", "died"}
              /\ engine' = [engine EXCEPT ![c].status = "running",
                                          ![c].last = nEvents + 1]
              /\ nEvents' = nEvents + 1
              /\ lastEvent' = [action |-> "start", id |-> id, labels |-> labels,
                               inspected |-> inspected]
              /\ starts' = IF inspected /\ shouldInstall(labels)
                           THEN starts \cup
                                {Goroutine(nEvents + 1, id, engine[c].name, labels)}
                           ELSE starts
    /\ UNCHANGED <<scanned, containers, ops, marked>>
    /\ MonitorUnchanged

\* handleContainerStop: the tracked container and the queue afterwards.
handleContainerStop(tracked, queue, hasInstaller, id) ==
    IF id \notin DOMAIN tracked \/ ~tracked[id].Installed
    THEN [containers |-> tracked, ops |-> queue]
    ELSE [containers |-> tracked,
          ops |-> queueOperation(queue, hasInstaller, "stop", tracked[id].AppName)]

\* handleContainerDestroy, with the generator's MarkUninstalled.
handleContainerDestroy(tracked, queue, marks, hasInstaller, id) ==
    IF id \notin DOMAIN tracked
    THEN [containers |-> tracked, ops |-> queue, marked |-> marks]
    ELSE [containers |-> MapRemove(tracked, id),
          ops |-> IF tracked[id].Installed
                  THEN queueOperation(queue, hasInstaller, "uninstall",
                                      tracked[id].AppName)
                  ELSE queue,
          marked |-> marks \ {id}]

\* A container dies, or is stopped after it died: handleDockerEvent, case
\* "stop", "die".
EventStopOrDie ==
    /\ scanned
    /\ nEvents < MaxEvents
    /\ \E c \in DOMAIN engine, action \in {"die", "stop"} :
          LET r == handleContainerStop(containers, ops, installer, ShortID(c)) IN
          /\ engine[c].status = IF action = "die" THEN "running" ELSE "died"
          /\ engine' = [engine EXCEPT
                           ![c].status = IF action = "die" THEN "died" ELSE "exited",
                           ![c].last = nEvents + 1]
          /\ nEvents' = nEvents + 1
          /\ lastEvent' = [action |-> action, id |-> ShortID(c),
                           labels |-> engine[c].labels, inspected |-> FALSE]
          /\ containers' = r.containers
          /\ ops' = r.ops
    /\ UNCHANGED <<scanned, starts, marked>>
    /\ MonitorUnchanged

\* A container is removed: handleDockerEvent, case "destroy".
EventDestroy ==
    /\ scanned
    /\ nEvents < MaxEvents
    /\ \E c \in DOMAIN engine :
          LET r == handleContainerDestroy(containers, ops, marked, installer,
                                          ShortID(c)) IN
          /\ engine[c].status \in {"created", "exited", "died"}
          /\ engine' = [engine EXCEPT ![c].status = "gone", ![c].last = nEvents + 1]
          /\ nEvents' = nEvents + 1
          /\ lastEvent' = [action |-> "destroy", id |-> ShortID(c),
                           labels |-> engine[c].labels, inspected |-> FALSE]
          /\ containers' = r.containers
          /\ ops' = r.ops
          /\ marked' = r.marked
    /\ UNCHANGED <<scanned, starts>>
    /\ MonitorUnchanged

\* handleContainerStart up to the sleep: an app that fnOS already has is
\* started and tracked as installed.
StartBegin ==
    /\ \E g \in starts, isAppInstalled \in BOOLEAN :
          /\ g.at = "begin"
          /\ IF installer /\ isAppInstalled
             THEN /\ ops' = queueOperation(ops, installer, "start", g.appName)
                  /\ containers' = MapPut(containers, g.id,
                         ContainerState(g.id, g.name, g.appName, TRUE, g.labels))
                  /\ starts' = starts \ {g}
             ELSE /\ starts' = (starts \ {g}) \cup {[g EXCEPT !.at = "generate"]}
                  /\ UNCHANGED <<ops, containers>>
    /\ UNCHANGED <<engine, scanned, marked, nEvents, lastEvent>>
    /\ MonitorUnchanged

\* handleContainerStart: GenerateFromContainer, the record, the install
\* operation sent to the queue.
StartGenerate ==
    /\ \E g \in starts, generated \in BOOLEAN :
          /\ g.at = "generate"
          /\ IF ~generated
             THEN /\ starts' = starts \ {g}
                  /\ UNCHANGED <<ops, containers>>
             ELSE /\ containers' = MapPut(containers, g.id,
                         ContainerState(g.id, g.name, g.appName, FALSE, g.labels))
                  /\ ops' = queueOperation(ops, installer, "install", g.appName)
                  /\ starts' = (starts \ {g}) \cup {[g EXCEPT !.at = "install"]}
    /\ UNCHANGED <<engine, scanned, marked, nEvents, lastEvent>>
    /\ MonitorUnchanged

\* handleContainerStart: the install operation's result arrives.
StartInstalled ==
    /\ \E g \in starts, failed \in BOOLEAN :
          /\ g.at = "install"
          /\ failed => installer
          /\ starts' = starts \ {g}
          /\ IF failed
             THEN UNCHANGED <<containers, marked>>
             ELSE /\ containers' = IF g.id \in DOMAIN containers
                                   THEN [containers EXCEPT ![g.id].Installed = TRUE]
                                   ELSE containers
                  /\ marked' = marked \cup {g.id}
    /\ UNCHANGED <<engine, scanned, ops, nEvents, lastEvent>>
    /\ MonitorUnchanged

MonitorNext ==
    ScanContainers \/ EventStart \/ EventStopOrDie \/ EventDestroy
        \/ StartBegin \/ StartGenerate \/ StartInstalled

SpecMonitor == MonitorInit /\ [][MonitorNext]_vars

-----------------------------------------------------------------------------
(* The probe alone, on a wide range of writes *)

ProbePayloads ==
    {MkPayload(n, form, result, reqid, list) :
        n \in {0, 12, 60, 130, 170},
        form \in {"applist", "listfirst", "cut", "nolist", "notify"},
        result \in {"succ", "fail"},
        reqid \in {ShortReq, Req1, LongReq},
        list \in {<<>>, <<Files>>, <<Files, Store>>}}
    \cup {MkPayload(n, "applist", "succ", Req1, <<Files>>) : n \in {3800, 4090}}

ProbeInit ==
    /\ InitRest
    /\ OtherInit
    /\ \E d \in ProbePayloads, comm \in {"trim_sac", "trim_sac_admin", "trim"},
          fd \in {2, 5}, readable \in BOOLEAN :
          ubuf = [pid |-> SacPid, comm |-> comm, fd |-> fd, data |-> d,
                  readable |-> readable, ran |-> FALSE, emit |-> FALSE,
                  flags |-> 0, poke |-> NoPos]

ProbeUnchanged ==
    UNCHANGED <<otherVars, now, pc, cur, eventsReceived, eventsProcessed, responsesInjected,
                trimSacPID, processedReqs, dockerApps, cachedFDs, localFds, npc, nfd,
                nSent, writes, handled>>

\* The write enters the kernel and the probe runs.
ProbeRun ==
    /\ ~ubuf.ran
    /\ LET r == ProbeOutcome(ubuf.pid, ubuf.comm, ubuf.fd, ubuf.data, ubuf.readable) IN
       /\ SubmitEvent(r)
       /\ ubuf' = UserBuffer(ubuf.pid, ubuf.comm, ubuf.fd, ubuf.data, ubuf.readable, r)
    /\ ProbeUnchanged

\* The ring-buffer reader takes the event.
ProbeDrain ==
    /\ ring # <<>>
    /\ ring' = Tail(ring)
    /\ UNCHANGED <<ubuf, nWrites>>
    /\ ProbeUnchanged

ProbeNext == ProbeRun \/ ProbeDrain

SpecProbe == ProbeInit /\ [][ProbeNext]_vars

-----------------------------------------------------------------------------
(* The daemon: T_SAC's writes, the ring-buffer task, the update listener,  *)
(* the notification task and the clock                                     *)

SacSockets == {5, 6}     \* the sockets T_SAC may have open
WriteFds == {5}          \* where T_SAC writes its responses
NotifyFds == {6}         \* the T_HUB-adjacent socket the notification task selects

\* What the descriptor table of T_SAC may look like when it is inspected: every
\* socket open, the response socket closed, the process gone.
OpenSets == {SacSockets, {6}, {}}

S1   == MkPayload(12, "applist", "succ", ShortReq, <<>>)
Resp == MkPayload(12, "applist", "succ", Req1, <<Files, Store>>)
Fail == MkPayload(12, "applist", "fail", Req1, <<Files>>)
Cut  == MkPayload(0, "cut", "succ", Req2, <<Files>>)
Ping == MkPayload(0, "ping", "", "", <<>>)

MainPayloads == {S1, Resp, Fail, Cut, Ping}

Nginx == [appName |-> "nginx", bulk |-> 40]
Memos == [appName |-> "memos", bulk |-> 70000]   \* e.g. an icon given as a data URI

AppSets == {<<>>, <<Nginx, Memos>>}

TickSteps == {4, 5}      \* seconds the clock advances in one step

Init ==
    /\ InitRest
    /\ OtherInit
    /\ ubuf = NoBuf

\* T_SAC writes a payload on one of its sockets; the probe runs at syscall
\* entry. The caller's buffer is not followed here.
SacWrite ==
    \E d \in MainPayloads, fd \in WriteFds :
        /\ SubmitEvent(ProbeOutcome(SacPid, "trim_sac", fd, d, TRUE))
        /\ UNCHANGED <<otherVars, now, ubuf, pc, cur, eventsReceived, eventsProcessed, responsesInjected,
                       trimSacPID, processedReqs, dockerApps, cachedFDs, localFds,
                       npc, nfd, nSent, writes, handled>>

Finish(event, reqID, outcome) ==
    /\ pc' = "idle"
    /\ cur' = NoCur
    /\ handled' = Append(handled, [timestamp |-> event.timestamp, flags |-> event.flags,
                                   reqID |-> reqID, time |-> now, outcome |-> outcome])

\* A reader that takes the next record whatever the task is doing, as a second
\* processEvents goroutine would.
AtReadAlways(p) == TRUE

\* The one processEvents goroutine is at m.ringbuf.Read() only when the call of
\* ProcessEvent for the record before has returned.
AtRead(p) == p = "idle"

\* Manager.processEvents reads one record and calls ProcessEvent, up to the call of
\* injectResponse.
ProcessEventBegin ==
    /\ AtRead(pc)
    /\ ring # <<>>
    /\ LET event == Head(ring)
           ext   == ExtractReqID(event.data)
           reqID == RequestID(ext, event.timestamp)
       IN  /\ ring' = Tail(ring)
           /\ eventsReceived' = eventsReceived + 1
           /\ trimSacPID' = event.pid
           /\ IF event.data_len <= MinDataLen
              THEN Finish(event, "", "small")
              ELSE IF ~IsAppStoreListResponse(event.data)
              THEN Finish(event, "", "notapplist")
              ELSE IF shouldSkipRequest(processedReqs, reqID, now)
              THEN Finish(event, reqID, "skipped")
              ELSE /\ pc' = "borrow"
                   /\ cur' = [NoCur EXCEPT !.event = event, !.reqID = reqID]
                   /\ UNCHANGED handled
    /\ UNCHANGED <<otherVars, now, ubuf, nWrites, eventsProcessed, responsesInjected,
                   processedReqs, dockerApps, cachedFDs, localFds, npc, nfd, nSent,
                   writes>>

\* injectResponse: DuplicateSocketFD, and findAndDuplicateSocketFD when it fails.
InjectBorrow ==
    /\ pc = "borrow"
    /\ \E open \in OpenSets :
          LET r == BorrowForInject(cachedFDs, localFds, open, cur.event.pid,
                                   cur.event.fd)
          IN  /\ cachedFDs' = r.cache
              /\ localFds' = r.table
              /\ IF r.err
                 THEN /\ Finish(cur.event, cur.reqID, "noborrow")
                 ELSE /\ pc' = "build"
                      /\ cur' = [cur EXCEPT !.newFD = r.newFD,
                                            !.want = <<cur.event.pid, r.fd>>]
                      /\ UNCHANGED handled
    /\ UNCHANGED <<otherVars, now, ring, ubuf, nWrites, eventsReceived, eventsProcessed,
                   responsesInjected, trimSacPID, processedReqs, dockerApps, npc, nfd,
                   nSent, writes>>

\* close(2) on a local descriptor number.
CloseFD(table, fd) == [table EXCEPT ![fd] = Closed]

\* injectResponse: InjectDockerApps; on an error the deferred close runs.
InjectBuild ==
    /\ pc = "build"
    /\ LET m == InjectDockerApps(cur.event.data, dockerApps) IN
       IF m.err
       THEN /\ localFds' = CloseFD(localFds, cur.newFD)
            /\ Finish(cur.event, cur.reqID, "noparse")
       ELSE /\ pc' = "send"
            /\ cur' = [cur EXCEPT !.modifiedData = m, !.apps = dockerApps]
            /\ UNCHANGED <<localFds, handled>>
    /\ UNCHANGED <<otherVars, now, ring, ubuf, nWrites, eventsReceived, eventsProcessed,
                   responsesInjected, trimSacPID, processedReqs, dockerApps, cachedFDs,
                   npc, nfd, nSent, writes>>

\* The outcomes of write(2) on a local descriptor: EBADF when it is not open.
WriteOutcomes(table, fd) ==
    IF table[fd] = Closed THEN {"error"} ELSE {"ok", "partial", "error"}

\* SendData on an outcome of write(2) that only reports the errors of write(2).
SendDataChecksErrOnly(res) == res = "error"

\* SendData returns an error when write(2) fails or writes less than the data.
SendDataFails(res) == res # "ok"

\* injectResponse: SendData and the deferred close; then, in ProcessEvent,
\* markRequestProcessed and the counters when the send succeeded.
InjectSend ==
    /\ pc = "send"
    /\ \E res \in WriteOutcomes(localFds, cur.newFD) :
          /\ writes' = IF res = "error" THEN writes
                       ELSE Append(writes,
                              [by |-> "rewriter", full |-> (res = "ok"), time |-> now,
                               desc |-> localFds[cur.newFD], want |-> cur.want,
                               reqID |-> cur.reqID, event |-> cur.event,
                               data |-> cur.modifiedData, apps |-> cur.apps,
                               appsAtSend |-> dockerApps])
          /\ localFds' = CloseFD(localFds, cur.newFD)
          /\ IF ~SendDataFails(res)
             THEN /\ processedReqs' = markRequestProcessed(processedReqs, cur.reqID, now)
                  /\ eventsProcessed' = eventsProcessed + 1
                  /\ responsesInjected' = responsesInjected + 1
                  /\ Finish(cur.event, cur.reqID, "injected")
             ELSE /\ Finish(cur.event, cur.reqID, IF res = "partial" THEN "partial" ELSE "nowrite")
                  /\ UNCHANGED <<processedReqs, eventsProcessed, responsesInjected>>
    /\ UNCHANGED <<otherVars, now, ring, ubuf, nWrites, eventsReceived, trimSacPID, dockerApps,
                   cachedFDs, npc, nfd, nSent>>

\* StartUpdateListener receives a list from the update channel.
UpdateDockerApps ==
    \E apps \in AppSets :
        /\ apps # dockerApps
        /\ dockerApps' = apps
        /\ UNCHANGED <<otherVars, now, ring, ubuf, nWrites, pc, cur, eventsReceived,
                       eventsProcessed, responsesInjected, trimSacPID, processedReqs,
                       cachedFDs, localFds, npc, nfd, nSent, writes, handled>>

\* Notifier.sendToFD: DuplicateSocketFDNocache
NotifyBorrow ==
    /\ npc = "idle"
    /\ nSent < MaxNotify
    /\ \E fd \in NotifyFds, open \in OpenSets :
          LET dup == duplicateViaSystemCall(localFds, open, SacPid, fd) IN
          /\ nSent' = nSent + 1
          /\ IF dup.err
             THEN UNCHANGED <<npc, nfd, localFds>>
             ELSE /\ npc' = "write"
                  /\ nfd' = [fd |-> fd, dupFD |-> dup.newFD]
                  /\ localFds' = [localFds EXCEPT ![dup.newFD] = <<SacPid, fd>>]
    /\ UNCHANGED <<otherVars, now, ring, ubuf, nWrites, pc, cur, eventsReceived, eventsProcessed,
                   responsesInjected, trimSacPID, processedReqs, dockerApps, cachedFDs,
                   writes, handled>>

\* Notifier.sendToFD: the write and the deferred close.
NotifySend ==
    /\ npc = "write"
    /\ \E res \in WriteOutcomes(localFds, nfd.dupFD) :
          writes' = IF res = "error" THEN writes
                    ELSE Append(writes,
                           [by |-> "notifier", full |-> (res = "ok"), time |-> now,
                            desc |-> localFds[nfd.dupFD], want |-> <<SacPid, nfd.fd>>])
    /\ localFds' = CloseFD(localFds, nfd.dupFD)
    /\ npc' = "idle"
    /\ nfd' = [fd |-> NoFD, dupFD |-> NoFD]
    /\ UNCHANGED <<otherVars, now, ring, ubuf, nWrites, pc, cur, eventsReceived, eventsProcessed,
                   responsesInjected, trimSacPID, processedReqs, dockerApps, cachedFDs,
                   nSent, handled>>

Tick ==
    /\ \E d \in TickSteps :
          /\ now + d <= MaxTime
          /\ now' = now + d
    /\ UNCHANGED <<otherVars, ring, ubuf, nWrites, pc, cur, eventsReceived, eventsProcessed,
                   responsesInjected, trimSacPID, processedReqs, dockerApps, cachedFDs,
                   localFds, npc, nfd, nSent, writes, handled>>

Next ==
    \/ SacWrite
    \/ ProcessEventBegin
    \/ InjectBorrow
    \/ InjectBuild
    \/ InjectSend
    \/ UpdateDockerApps
    \/ NotifyBorrow
    \/ NotifySend
    \/ Tick

Spec == Init /\ [][Next]_vars

-----------------------------------------------------------------------------
(* The dedup table over more than a minute *)

LongSteps == {30, 31}    \* seconds the clock advances between captures

LongTick ==
    /\ \E d \in LongSteps :
          /\ now + d <= MaxClock
          /\ now' = now + d
    /\ UNCHANGED <<otherVars, ring, ubuf, nWrites, pc, cur, eventsReceived, eventsProcessed,
                   responsesInjected, trimSacPID, processedReqs, dockerApps, cachedFDs,
                   localFds, npc, nfd, nSent, writes, handled>>

DedupNext ==
    \/ SacWrite
    \/ ProcessEventBegin
    \/ InjectBorrow
    \/ InjectBuild
    \/ InjectSend
    \/ LongTick

SpecDedup == Init /\ [][DedupNext]_vars

-----------------------------------------------------------------------------
(* The pid of T_SAC: ProcessEvent beside the head of SendContainerNotification *)

\* The processes whose comm is trim_sac and whose cmdline names
\* /usr/trim/bin/trim_sac.
TrimPids == {SacPid, SacPid + 1}

\* ProcessEvent, under i.mu: the counter and the pid of the event.
ProcessEventPid ==
    /\ eventsReceived < MaxCount
    /\ \E pid \in TrimPids :
          /\ eventsReceived' = eventsReceived + 1
          /\ trimSacPID' = pid
          /\ lookup' = [lookup EXCEPT !.lastEvent = pid]
    /\ UNCHANGED <<besideLookup, now, ring, ubuf, nWrites, pc, cur, eventsProcessed,
                   responsesInjected, processedReqs, dockerApps, cachedFDs, localFds,
                   npc, nfd, nSent, writes, handled>>

\* SendContainerNotification reads i.trimSacPID under the read lock.
LookupRead ==
    /\ lookup.at \in {"idle", "done"}
    /\ lookup.n < MaxLookups
    /\ lookup' = [lookup EXCEPT !.at = IF trimSacPID = 0 THEN "scan" ELSE "done",
                                !.pid = trimSacPID,
                                !.n = @ + 1]
    /\ UNCHANGED <<interceptVars, besideLookup>>

\* findTrimSacPID, with no lock held: a process found, or none.
LookupScan ==
    /\ lookup.at = "scan"
    /\ \E found \in TrimPids \cup {0} :
          lookup' = [lookup EXCEPT !.at = IF found = 0 THEN "done" ELSE "cache",
                                   !.pid = found]
    /\ UNCHANGED <<interceptVars, besideLookup>>

\* The pid found is stored under the write lock.
LookupCache ==
    /\ lookup.at = "cache"
    /\ trimSacPID' = StorePid(trimSacPID, lookup.pid)
    /\ lookup' = [lookup EXCEPT !.at = "done"]
    /\ UNCHANGED <<besideLookup, now, ring, ubuf, nWrites, pc, cur, eventsReceived,
                   eventsProcessed, responsesInjected, processedReqs, dockerApps,
                   cachedFDs, localFds, npc, nfd, nSent, writes, handled>>

PidNext == ProcessEventPid \/ LookupRead \/ LookupScan \/ LookupCache

SpecPid == Init /\ [][PidNext]_vars

-----------------------------------------------------------------------------
(* Monitor.opQueue: the callers of queueOperation, the worker and Monitor.Stop *)

OpTypes == {"install", "stop"}

QueueUnchanged == UNCHANGED <<interceptVars, notifyVars, stopVars, monitorVars, borrow, lookup>>

\* A handler calls queueOperation: the result channel is made.
CallQueueOperation ==
    /\ \E k \in Callers, t \in OpTypes :
          /\ opq.callers[k].at = "idle"
          /\ opq' = [opq EXCEPT !.callers[k] = [at |-> "send", Type |-> t, got |-> NoOp]]
    /\ QueueUnchanged

\* m.opQueue <- op, which blocks while the buffer is full.
SendOperation ==
    /\ \E k \in Callers :
          LET op == [caller |-> k, Type |-> opq.callers[k].Type] IN
          /\ opq.callers[k].at = "send"
          /\ Len(opq.queue) < QueueCap
          /\ opq' = [opq EXCEPT !.queue = Append(@, op),
                                !.queued = Append(@, op),
                                !.callers[k].at = "wait"]
    /\ QueueUnchanged

\* return <-resultCh
ReceiveResult ==
    /\ \E k \in Callers :
          /\ opq.callers[k].at = "wait"
          /\ opq.resultCh[k] # <<>>
          /\ opq' = [opq EXCEPT !.callers[k].at = "done",
                                !.callers[k].got = Head(opq.resultCh[k]),
                                !.resultCh[k] = Tail(@)]
    /\ QueueUnchanged

\* runOperationWorker at its select: it returns on stopCh or ctx.Done, or takes
\* an operation and calls the installer.
WorkerTakes ==
    /\ opq.worker.at = "select"
    /\ \E branch \in WorkerSelect(opq.stopped, opq.queue) :
          IF branch = "return"
          THEN opq' = [opq EXCEPT !.worker.at = "returned"]
          ELSE LET op == Receive(opq.queue) IN
               opq' = [opq EXCEPT !.worker = [at |-> "run", op |-> op],
                                  !.queue = Without(@, op),
                                  !.executed = Append(@, op)]
    /\ QueueUnchanged

\* The installer call returns and the worker sends the result on op.ResultCh.
WorkerReplies ==
    /\ opq.worker.at = "run"
    /\ opq' = [opq EXCEPT !.worker = [at |-> "select", op |-> NoOp],
                          !.resultCh[opq.worker.op.caller] = Append(@, opq.worker.op)]
    /\ QueueUnchanged

\* Monitor.Stop closes stopCh (or the context is cancelled).
StopMonitor ==
    /\ ~opq.stopped
    /\ opq' = [opq EXCEPT !.stopped = TRUE]
    /\ QueueUnchanged

QueueNext ==
    CallQueueOperation \/ SendOperation \/ ReceiveResult \/ WorkerTakes
        \/ WorkerReplies \/ StopMonitor

SpecQueue == Init /\ [][QueueNext]_vars

-----------------------------------------------------------------------------
(* injectResponse's borrows on a changing /proc, beside the notifier's     *)
(* uncached borrow                                                         *)

BorrowFdNums == {3, 4, 5}     \* the descriptors of T_SAC that are followed
CapturedFds == {4, 5}         \* event.FD

BorrowKinds ==
    {FdKind("none", FALSE, "", "", ""),
     FdKind("file", FALSE, "", "", ""),
     FdKind("socket", FALSE, "", "", ""),                      \* a TCP socket
     FdKind("socket", TRUE, "01", "", "trim"),
     FdKind("socket", TRUE, "01", "/var/run/trim_sac.socket", "trim"),
     FdKind("socket", TRUE, "01", "/run/dbus/system_bus", "dbus")}

BorrowInit ==
    /\ InitRest
    /\ ubuf = NoBuf
    /\ NotifyIdle
    /\ StopIdle
    /\ MonitorIdle
    /\ BorrowIdle
    /\ LookupIdle
    /\ QueueIdle
    /\ \E kindOf \in [BorrowFdNums -> BorrowKinds] : procfs = MkProcfs(kindOf, TRUE)

BorrowUnchanged ==
    UNCHANGED <<now, ring, ubuf, nWrites, pc, cur, eventsReceived, eventsProcessed,
                responsesInjected, trimSacPID, processedReqs, dockerApps, npc, nfd,
                nSent, writes, handled, stage, activeFDs, idx, successCount, attempts,
                message, stopVars, monitorVars, lookup, opq>>

\* injectResponse is called for an event captured on fd and borrows a descriptor.
BorrowOnProc ==
    /\ ~borrow.held
    /\ borrow.n < MaxBorrows
    /\ \E fd \in CapturedFds :
          LET r == injectResponseBorrow(cachedFDs, localFds, procfs, SacPid, fd) IN
          /\ cachedFDs' = r.cache
          /\ localFds' = r.table
          /\ borrow' = [n |-> borrow.n + 1, fd |-> fd, held |-> ~r.err, result |-> r,
                        entry |-> CacheEntry(cachedFDs, localFds, <<SacPid, fd>>)]
    /\ UNCHANGED procfs
    /\ BorrowUnchanged

\* injectResponse returns: the deferred close of the descriptor it borrowed.
BorrowRelease ==
    /\ borrow.held
    /\ localFds' = CloseFD(localFds, borrow.result.newFD)
    /\ borrow' = [borrow EXCEPT !.held = FALSE]
    /\ UNCHANGED <<cachedFDs, procfs>>
    /\ BorrowUnchanged

\* T_SAC closes one of its descriptors.
SacCloses ==
    /\ \E fd \in BorrowFdNums :
          /\ procfs.kindOf[fd].link # "none"
          /\ procfs' = MkProcfs([procfs.kindOf EXCEPT ![fd] = FdKind("none", FALSE, "", "", "")],
                                TRUE)
    /\ UNCHANGED <<cachedFDs, localFds, borrow>>
    /\ BorrowUnchanged

BorrowNext == BorrowOnProc \/ BorrowRelease \/ SacCloses \/ NotifyBorrow \/ NotifySend

SpecBorrow == BorrowInit /\ [][BorrowNext]_vars

-----------------------------------------------------------------------------
(* Claims about the rewriter *)

Rewrites == {i \in 1..Len(writes) : writes[i].by = "rewriter"}

\* One list element of the captured response, as a JSON object.
ElemObject(e) == [appName |-> e.appName, bulk |-> 0, extra |-> e.extra]

ObjectList(l) == [i \in 1..Len(l) |-> ElemObject(l[i])]

RecordObjects(apps) == [i \in 1..Len(apps) |-> MarshalApp(apps[i])]

\* C1: the list of every emitted response is the captured response's list,
\* element for element and in order, followed by the records of the record
\* set in its order.
C1_OriginalsThenRecords ==
    \A i \in Rewrites :
        writes[i].data.list =
            ObjectList(writes[i].event.data.json.list) \o RecordObjects(writes[i].apps)

\* C2: the reqid and result of every emitted response are those of the
\* captured payload of the same event, and never the synthetic id.
C2_CorrelationCopied ==
    \A i \in Rewrites :
        /\ writes[i].data.reqid = writes[i].event.data.json.reqid
        /\ writes[i].data.result = writes[i].event.data.json.result
        /\ writes[i].data.reqid # SyntheticID(writes[i].event.timestamp)

C2_Witness ==
    \E i \in Rewrites : writes[i].data.reqid = Req1 /\ writes[i].data.result = "succ"

\* C3: two captures of one reqid less than 5 s apart never both
\* result in a write on the borrowed fd.
C3_OneWritePerWindow ==
    \A i, j \in Rewrites :
        (i < j /\ writes[i].reqID = writes[j].reqID)
            => writes[j].time - writes[i].time >= DedupWindow

\* C4: the records injected into one output are the contents of the record
\* set at one moment of that rewrite, whatever updates are interleaved with it.
C4_OneSnapshot ==
    \A i \in Rewrites :
        LET w == writes[i]
            n == Len(w.event.data.json.list)
        IN  /\ w.apps \in AppSets
            /\ Len(w.data.list) = n + Len(w.apps)
            /\ \A k \in 1..Len(w.apps) : w.data.list[n + k] = MarshalApp(w.apps[k])

\* A rewrite that injected a non-empty snapshot while the record set was
\* replaced before the write.
C4_Witness ==
    \E i \in Rewrites : writes[i].apps # <<>> /\ writes[i].appsAtSend # writes[i].apps

\* C5: with a prefix of 12 bytes or more, bytes 10-11 of the output hold the
\* length of the emitted JSON.
C5_LengthField ==
    \A i \in Rewrites :
        Len(writes[i].data.pre) >= 12
            => writes[i].data.pre[11] + 256 * writes[i].data.pre[12]
                   = writes[i].data.jsonLen

\* C6: a write on a borrowed fd is made only for an event that carries
\* FLAG_APPSTORE and whose payload passes the re-verification.
C6_OnlyFlaggedEvents ==
    \A i \in Rewrites :
        /\ HasFlag(writes[i].event.flags, FLAG_APPSTORE)
        /\ Contains(writes[i].event.data, RESULT_SUCC)
        /\ Contains(writes[i].event.data, REQID_KEY)
        /\ Contains(writes[i].event.data, LIST_KEY)

\* The step that takes a flagged event whose payload fails re-verification.
RejectedStep ==
    /\ pc = "idle"
    /\ ring # <<>>
    /\ ring' = Tail(ring)
    /\ HasFlag(Head(ring).flags, FLAG_APPSTORE)
    /\ ~(/\ Contains(Head(ring).data, RESULT_SUCC)
         /\ Contains(Head(ring).data, REQID_KEY)
         /\ Contains(Head(ring).data, LIST_KEY))

\* The step that completes a rewrite: one complete write by the rewriter.
CompleteWriteStep ==
    /\ Len(writes') = Len(writes) + 1
    /\ writes'[Len(writes')].by = "rewriter"
    /\ writes'[Len(writes')].full

\* C8 as claimed: handling such an event writes nothing and changes none of
\* the three counters; the counters change only when a rewrite succeeded.
C8_NoCounterChanges ==
    [][/\ RejectedStep
          => /\ pc' = "idle" /\ writes' = writes
             /\ UNCHANGED <<eventsReceived, eventsProcessed, responsesInjected>>
       /\ ~UNCHANGED <<eventsReceived, eventsProcessed, responsesInjected>>
          => CompleteWriteStep]_vars

\* C8 as amended: handling such an event ends at the re-verification, writes
\* nothing and leaves eventsProcessed and responsesInjected unchanged, while
\* eventsReceived counts it; eventsProcessed and responsesInjected change only
\* when a rewrite succeeded, and then by one each.
C8_OnlyReceivedCounts ==
    [][/\ RejectedStep
          => /\ pc' = "idle" /\ writes' = writes
             /\ eventsReceived' = eventsReceived + 1
             /\ UNCHANGED <<eventsProcessed, responsesInjected>>
       /\ ~UNCHANGED <<eventsProcessed, responsesInjected>>
          => /\ CompleteWriteStep
             /\ eventsProcessed' = eventsProcessed + 1
             /\ responsesInjected' = responsesInjected + 1]_vars

C8_Witness ==
    \E h \in 1..Len(handled) :
        HasFlag(handled[h].flags, FLAG_APPSTORE) /\ handled[h].outcome = "notapplist"

\* C10: every write of the rewriter goes to the open file description that
\* was duplicated from the (pid, fd) it borrowed.
C10_BorrowedDescription ==
    \A i \in Rewrites : writes[i].desc = writes[i].want

\* The local descriptor numbers the cache holds.
CachedNumbers == {cachedFDs[k] : k \in DOMAIN cachedFDs}

\* C11: while the daemon runs (before teardown) the only close of a local
\* descriptor is the close of an uncached handle by the caller that took it;
\* a descriptor number the cache holds is never closed by a caller.
C11_ClosedByOwner ==
    [][\A n \in LocalFdNums :
          (localFds[n] # Closed /\ localFds'[n] = Closed)
              => /\ npc = "write"
                 /\ n = nfd.dupFD
                 /\ n \notin CachedNumbers]_vars

\* A rewrite attempt ends in this step without a complete write.
AttemptFails ==
    /\ pc \in {"borrow", "build", "send"}
    /\ pc' = "idle"
    /\ ~(Len(writes') > Len(writes) /\ writes'[Len(writes')].full)

FailedOutcomes == {"noborrow", "noparse", "nowrite", "partial"}

\* C24: a rewrite attempt that fails at the borrow, at the JSON parse or at the write
\* (error or partial) leaves the dedup table and both counters as they were and ends
\* with an error; the rewriter writes at most once for an event; and a capture is
\* suppressed only after a successful rewrite of its reqid with no failed attempt
\* for that reqid in between.
C24_FailedAttempt ==
    [][/\ AttemptFails =>
             /\ processedReqs' = processedReqs
             /\ eventsProcessed' = eventsProcessed
             /\ responsesInjected' = responsesInjected
             /\ handled'[Len(handled')].outcome \in FailedOutcomes
       /\ writes' # writes =>
             /\ Len(writes') = Len(writes) + 1
             /\ writes'[Len(writes')].by = "rewriter" => (pc = "send" /\ pc' = "idle")
       /\ (Len(handled') > Len(handled) /\ handled'[Len(handled')].outcome = "skipped") =>
             \E i \in 1..Len(handled) :
                 /\ handled[i].outcome = "injected"
                 /\ handled[i].reqID = handled'[Len(handled')].reqID
                 /\ \A k \in (i + 1)..Len(handled) :
                       handled[k].reqID = handled[i].reqID
                           => handled[k].outcome \notin FailedOutcomes]_vars

\* A partial write for a reqid, and a later capture of the same reqid rewritten.
C24_Witness ==
    \E i \in 1..Len(handled), j \in 1..Len(handled) :
        /\ i < j
        /\ handled[i].outcome = "partial"
        /\ handled[j].outcome = "injected"
        /\ handled[j].reqID = handled[i].reqID
        /\ eventsProcessed = 1

\* A rewrite attempt ends in this step with a complete write.
AttemptSucceeds ==
    /\ pc = "send"
    /\ pc' = "idle"
    /\ Len(writes') > Len(writes)
    /\ writes'[Len(writes')].full

\* C25: right after a successful rewrite the dedup table maps the reqid to the
\* current time and holds no entry recorded more than 60 s ago; an entry leaves
\* the table only in such a step and only when it was recorded more than 60 s ago,
\* and the entries that stay keep their times.
C25_Eviction ==
    [][/\ AttemptSucceeds =>
             /\ cur.reqID \in DOMAIN processedReqs'
             /\ processedReqs'[cur.reqID] = now
             /\ \A id \in DOMAIN processedReqs' : now - processedReqs'[id] <= EvictAge
       /\ \A id \in DOMAIN processedReqs :
             \/ /\ id \in DOMAIN processedReqs'
                /\ processedReqs'[id] = processedReqs[id] \/ (AttemptSucceeds /\ id = cur.reqID)
             \/ /\ id \notin DOMAIN processedReqs'
                /\ AttemptSucceeds
                /\ now - processedReqs[id] > EvictAge]_vars

\* A reqid that was rewritten has left the table, and another is in it.
C25_Witness ==
    /\ \E i \in 1..Len(handled) :
          /\ handled[i].outcome = "injected"
          /\ handled[i].reqID \notin DOMAIN processedReqs
    /\ DOMAIN processedReqs # {}

\* C27: when ExtractReqID fails on a payload that passed IsAppStoreListResponse,
\* ProcessEvent does not return there: the dedup check is made on ts_<timestamp>,
\* and unless that id is suppressed the event goes on to injectResponse under it.
C27_SyntheticID ==
    [][(eventsReceived' # eventsReceived
          /\ Head(ring).data_len > MinDataLen
          /\ IsAppStoreListResponse(Head(ring).data)
          /\ ExtractReqID(Head(ring).data).err)
         => LET id == SyntheticID(Head(ring).timestamp) IN
            IF shouldSkipRequest(processedReqs, id, now)
            THEN /\ pc' = "idle"
                 /\ handled'[Len(handled')].outcome = "skipped"
                 /\ handled'[Len(handled')].reqID = id
            ELSE /\ pc' = "borrow"
                 /\ cur'.event = Head(ring)
                 /\ cur'.reqID = id
                 /\ handled' = handled]_vars

\* An event whose reqid could not be parsed reached injectResponse under ts_<timestamp>.
C27_Witness ==
    \E i \in 1..Len(handled) :
        /\ handled[i].reqID = SyntheticID(handled[i].timestamp)
        /\ handled[i].outcome \in FailedOutcomes \cup {"injected"}

\* C40: the rewriter writes on a borrowed descriptor only for a payload that
\* ExtractReqID and InjectDockerApps can parse, so every key of the dedup table is
\* the reqid parsed from a payload whose rewrite was written in full, and never a
\* ts_<timestamp> id.
C40_OnlyParsedPayloads ==
    /\ \A i \in Rewrites :
          /\ ~ExtractReqID(writes[i].event.data).err
          /\ ~InjectDockerApps(writes[i].event.data, writes[i].apps).err
          /\ writes[i].reqID = ExtractReqID(writes[i].event.data).reqID
    /\ \A id \in DOMAIN processedReqs :
          /\ \A t \in 0..MaxTime : id # SyntheticID(t)
          /\ \E i \in Rewrites :
                /\ writes[i].full
                /\ writes[i].reqID = id
                /\ ExtractReqID(writes[i].event.data).reqID = id

\* An event under a ts_<timestamp> id has ended at the parse of InjectDockerApps,
\* after another event was rewritten and recorded.
C40_Witness ==
    /\ DOMAIN processedReqs # {}
    /\ \E i \in 1..Len(handled) :
          /\ handled[i].reqID = SyntheticID(handled[i].timestamp)
          /\ handled[i].outcome = "noparse"

IsDupOf(table, n, fd) == table[n] # Closed /\ table[n] = <<SacPid, fd>>

\* Every local number but n is in t2 what it is in t1.
SameBut(t1, t2, n) ==
    \A m \in DOMAIN t1 \ {n} :
        IF t1[m] = Closed THEN t2[m] = Closed
        ELSE t2[m] # Closed /\ t2[m] = t1[m]

\* C31: the handle sendToFD borrows without the cache is a free number made a
\* duplicate of (pid, fd), with nothing else left open by the duplication; it stays
\* open until sendToFD returns, which closes it once, whatever the write gave; and
\* no step of the notifier changes the cache.
C31_UncachedHandle ==
    [][/\ (npc = "idle" /\ npc' = "write") =>
             /\ localFds[nfd'.dupFD] = Closed
             /\ IsDupOf(localFds', nfd'.dupFD, nfd'.fd)
             /\ SameBut(localFds, localFds', nfd'.dupFD)
             /\ cachedFDs' = cachedFDs
       /\ (npc = "write" /\ npc' = "write") => IsDupOf(localFds', nfd.dupFD, nfd.fd)
       /\ (npc = "write" /\ npc' = "idle") =>
             /\ IsDupOf(localFds, nfd.dupFD, nfd.fd)
             /\ localFds'[nfd.dupFD] = Closed
             /\ SameBut(localFds, localFds', nfd.dupFD)
             /\ cachedFDs' = cachedFDs]_vars

-----------------------------------------------------------------------------
(* Claims about notifications *)

\* The little-endian 32-bit value at bytes i .. i+3 (1-based) of h.
U32(h, i) ==
    IF h[i + 3] >= 128 THEN -1    \* 2^31 or more: no such value in the model
    ELSE h[i] + 256 * h[i + 1] + 65536 * h[i + 2] + 16777216 * h[i + 3]

Adjacent(k) ==
    /\ k.link = "socket"
    /\ k.listed
    /\ k.path = ""
    /\ k.st \in {"01", "03"}
    /\ StrContains(k.peer, "trim")
    /\ ~StrContains(k.peer, "trim_sac")

Selected == {activeFDs[i] : i \in 1..Len(activeFDs)}

\* C13 as claimed: the scan selects exactly the descriptors of T_SAC that are
\* T_HUB-adjacent, whatever their number.
C13_ExactlyAdjacent ==
    stage.scanned =>
        Selected = {fd \in ScanFdNums : Adjacent(procfs.kindOf[fd])}

\* C13 as amended: the scan selects exactly the descriptors numbered 3 or
\* higher that are T_HUB-adjacent; descriptors 0, 1 and 2 are never selected.
C13_ExactlyAdjacentAbove2 ==
    stage.scanned =>
        Selected = {fd \in ScanFdNums : fd >= 3 /\ Adjacent(procfs.kindOf[fd])}

\* A scan that selected one descriptor, rejected one whose peer is trim_sac,
\* and passed over an adjacent socket on descriptor 1.
C13_Witness ==
    /\ stage.scanned
    /\ Selected = {4}
    /\ procfs.kindOf[3].peer = "trim_sac"
    /\ procfs.kindOf[3].st = "01"
    /\ Adjacent(procfs.kindOf[1])

C30_SameBytes ==
    \A i \in 1..Len(attempts), j \in 1..Len(attempts) :
        (attempts[i].outcome = "ok" /\ attempts[j].outcome = "ok")
            => attempts[i].message = attempts[j].message

-----------------------------------------------------------------------------
(* Claims about shutdown *)

Position(log, name) == CHOOSE i \in 1..Len(log) : log[i] = name

\* C17: on shutdown the ring-buffer reader is closed first, then the
\* tracepoint links are detached, then the eBPF objects are released: no
\* link is detached while the reader is open, and the objects are not
\* released while the reader is open or a link is attached.
C17_ReleaseOrder ==
    /\ \A i \in 1..Len(Links) :
          Has(released, Links[i]) =>
              /\ ReaderClosed
              /\ Position(released, "ringbuf") < Position(released, Links[i])
    /\ Has(released, "objs") =>
          /\ ReaderClosed
          /\ Position(released, "ringbuf") < Position(released, "objs")
          /\ \A i \in 1..Len(Links) :
                /\ Has(released, Links[i])
                /\ Position(released, Links[i]) < Position(released, "objs")

C17_Witness ==
    /\ Has(released, "objs")
    /\ Has(released, "ringbuf")
    /\ Has(released, "sys_enter_write")

TaskEnded == taskPc = "done" \/ Returned

C39_TeardownAfterTask ==
    \A name \in {"ringbuf", "interceptor", "objs"} :
        Has(released, name) => taskPc # "process"

\* C28: a failure in one turn of processEvents (a read error other than ErrClosed,
\* a record too short for parseEvent, an error of ProcessEvent) does not end the
\* loop: the task returns only after shutdown has begun, and after a failure it
\* is back in m.ringbuf.Read() unless shutdown begins first.
C28_LoopContinues ==
    /\ [](taskPc = "done" => mainPc > 0)
    /\ [][taskFail' # taskFail /\ taskFail' # "none" => taskPc' = "select"]_vars
    /\ (taskFail # "none") ~> (taskPc = "read" \/ mainPc > 0)

\* ProcessEvent has failed, no signal has arrived and a record waits in the ring.
C28_Witness ==
    /\ taskFail = "process"
    /\ taskPc = "select"
    /\ mainPc = 0
    /\ records > 0

-----------------------------------------------------------------------------
(* Claims about the container monitor *)

EventStep == nEvents' # nEvents

C20_StopRemovesAndNotifies ==
    [][(/\ EventStep
        /\ lastEvent'.action \in {"stop", "die", "destroy"}
        /\ lastEvent'.id \in DOMAIN containers)
           => /\ lastEvent'.id \notin DOMAIN containers'
              /\ Cardinality(DOMAIN containers') = Cardinality(DOMAIN containers) - 1
              /\ notified' = Append(notified,
                     [appName |-> containers[lastEvent'.id].AppName,
                      state |-> "stopped"])]_vars

\* The goroutine that takes a step, when the step is one of handleContainerStart.
Stepping == starts \ starts'

LatestEvent(id) ==
    LET c == CHOOSE x \in DOMAIN engine : ShortID(x) = id IN engine[c].last

\* C21: for one container id the effects of its events take place in stream
\* order: when handleContainerStart changes the tracked containers, the
\* queue or the generator's marks for a start event, no later event of that
\* id has been handled yet.
C21_StreamOrder ==
    [][\A g \in Stepping :
          (containers' # containers \/ ops' # ops \/ marked' # marked)
              => LatestEvent(g.id) <= g.n]_vars

\* C22: when the monitor handles the first event of the stream, every
\* running container that qualifies is already in the tracked set.
C22_ScanSeedsFirst ==
    [][(nEvents = 0 /\ EventStep)
          => \A c \in DOMAIN engine :
                (engine[c].status = "running" /\ shouldInstall(engine[c].labels))
                    => ShortID(c) \in DOMAIN containers]_vars

-----------------------------------------------------------------------------
(* Claims about the pid of T_SAC *)

\* C32: the scan of /proc runs only when no pid is known; the pid a notification
\* goes on with is the pid of the capture event processed last whenever an event
\* has been processed; and storing the pid the scan found never replaces a pid
\* learned from a capture event, a capture event may be processed during the scan.
C32_PidFromCapture ==
    [][/\ (lookup.at = "scan" /\ lookup'.at # "scan") => lookup.pid = 0
       /\ (lookup'.at = "done" /\ lookup.at # "done" /\ lookup'.pid # 0 /\ lookup.lastEvent # 0)
             => lookup'.pid = lookup.lastEvent
       /\ (lookup.at = "cache" /\ lookup'.at = "done" /\ lookup.lastEvent # 0)
             => trimSacPID' = lookup.lastEvent]_vars

-----------------------------------------------------------------------------
(* Claims about the operation queue *)

IsPrefix(a, b) == Len(a) <= Len(b) /\ a = SubSeq(b, 1, Len(a))

\* C33: the operations sent to opQueue are executed by the one worker in the
\* order they were sent, one at a time: the next is taken only when the result of
\* the one before has been sent; and what a caller receives is the result of the
\* operation it sent.
C33_OneWorkerInOrder ==
    /\ [](IsPrefix(opq.executed, opq.queued))
    /\ [](\A k \in Callers :
             opq.callers[k].at = "done" =>
                 opq.callers[k].got = [caller |-> k, Type |-> opq.callers[k].Type])
    /\ [][opq'.executed # opq.executed =>
             /\ opq.worker.at = "select"
             /\ opq'.worker.op = opq.queued[Len(opq.executed) + 1]
             /\ \A i \in 1..Len(opq.executed) :
                   LET c == opq.executed[i].caller IN
                   opq.resultCh[c] # <<>> \/ opq.callers[c].at = "done"]_vars

\* Two operations waited in the queue, both were executed, and both callers have
\* their results.
C33_Witness ==
    /\ Len(opq.executed) >= 2
    /\ opq.queued[1].Type # opq.queued[2].Type
    /\ opq.callers[opq.queued[1].caller].at = "done"
    /\ opq.callers[opq.queued[2].caller].at = "done"
    /\ opq.queued[1].caller > opq.queued[2].caller

\* C34: no call of queueOperation is left without a way to return: whenever the
\* worker has returned, no caller is still sending its operation or waiting for
\* a result that has not been sent.
C34_NoStrandedCaller ==
    opq.worker.at = "returned" =>
        \A k \in Callers :
            \/ opq.callers[k].at \in {"idle", "done"}
            \/ opq.callers[k].at = "wait" /\ opq.resultCh[k] # <<>>

-----------------------------------------------------------------------------
(* Claims about the borrow of injectResponse *)

BorrowStep == borrow'.n # borrow.n

\* C23: DuplicateSocketFD for (pid, fd) returns the cached descriptor, duplicating
\* nothing, exactly when the cache has an entry for the key that passes isValidFD.
\* Otherwise a success leaves the key mapped to the new descriptor, a failure leaves
\* the key without an entry, and the entries of all other keys are as before.
C23_CachedBorrow ==
    [][BorrowStep =>
          LET key == <<SacPid, borrow'.fd>>
              r   == borrow'.result.primary
              hit == key \in DOMAIN cachedFDs /\ isValidFD(localFds, cachedFDs[key])
          IN  /\ hit <=> (~r.err /\ r.table = localFds)
              /\ hit => (r.newFD = cachedFDs[key] /\ r.cache = cachedFDs)
              /\ (~hit /\ ~r.err) =>
                     /\ localFds[r.newFD] = Closed
                     /\ r.table[r.newFD] = key
                     /\ key \in DOMAIN r.cache
                     /\ r.cache[key] = r.newFD
              /\ (~hit /\ r.err) => key \notin DOMAIN r.cache
              /\ \A k \in (DOMAIN cachedFDs \cup DOMAIN r.cache) \ {key} :
                     /\ k \in DOMAIN cachedFDs
                     /\ k \in DOMAIN r.cache
                     /\ r.cache[k] = cachedFDs[k]]_vars

\* The entry of the key failed validation and was deleted, and the duplication
\* failed.
C23_Witness ==
    /\ borrow.n > 0
    /\ borrow.entry = "stale"
    /\ borrow.result.primary.err

\* The descriptor fd of T_SAC is a Unix-domain socket: its link is socket:[inode]
\* and the inode is listed in /proc/net/unix.
IsUnixSocket(pfs, fd) ==
    /\ fd \in DOMAIN pfs.kindOf
    /\ pfs.kindOf[fd].link = "socket"
    /\ pfs.kindOf[fd].listed

\* C26: findAndDuplicateSocketFD runs only when the borrow of the captured (pid, fd)
\* failed; it tries only Unix sockets among descriptors 3..12, in ascending order
\* and each at most once, and returns the first that duplicates; when none does,
\* injectResponse fails holding no descriptor to write to. When the primary borrow
\* succeeds, the descriptor written to is a duplicate of the captured fd.
C26_FallbackScan ==
    [][BorrowStep =>
          LET r == borrow'.result
              t == r.tried
          IN  /\ r.scanned <=> r.primary.err
              /\ \A i \in 1..Len(t) : t[i] \in commonFDs /\ IsUnixSocket(procfs, t[i])
              /\ \A i \in 1..Len(t), j \in 1..Len(t) : i < j => t[i] < t[j]
              /\ (r.scanned /\ ~r.err) => (t # <<>> /\ r.fd = t[Len(t)])
              /\ r.err => ~borrow'.held
              /\ ~r.primary.err => r.table[r.newFD] = <<SacPid, borrow'.fd>>]_vars

\* C35: once the destroy event of a container has been handled and no
\* handleContainerStart goroutine of that container is left, the container is not
\* tracked, the generator does not hold it as installed, and no install or start
\* operation for its app was queued after the destroy event.
C35_DestroyIsFinal ==
    /\ [](\A c \in DOMAIN engine :
             (engine[c].status = "gone" /\ ~\E g \in starts : g.id = ShortID(c))
                 => /\ ShortID(c) \notin DOMAIN containers
                    /\ ShortID(c) \notin marked)
    /\ [][\A g \in Stepping :
             (containers' # containers \/ ops' # ops \/ marked' # marked)
                 => \A c \in DOMAIN engine :
                       ShortID(c) = g.id => engine[c].status \notin {"gone", "died", "exited"}]_vars

-----------------------------------------------------------------------------
(* Claims about the probe *)

\* C15: a qualifying write of count bytes from a readable buffer is captured
\* with data length min(count, 4096) and with the first min(count, 4096)
\* bytes of the buffer.
C15_CapturedLength ==
    (ubuf.ran /\ ubuf.emit /\ ubuf.readable /\ ring # <<>>) =>
        LET n == Min(DataLen(ubuf.data), MAX_DATA_SIZE) IN
        /\ ring[1].data_len = n
        /\ DataLen(ring[1].data) = n
        /\ ring[1].data = Take(ubuf.data, n)

\* C16: only a write by a process whose comm is exactly trim_sac produces an
\* event or has its buffer modified.
C16_ExactComm ==
    (ubuf.ran /\ ubuf.comm # "trim_sac") => (~ubuf.emit /\ ubuf.poke = NoPos)

\* C7: the probe's FLAG_APPSTORE decision and IsAppStoreListResponse are the
\* same predicate: every submitted event carries the flag if and only if its
\* data pass the user-space re-verification.
C7_KernelEqualsUserSpace ==
    \A i \in 1..Len(ring) :
        HasFlag(ring[i].flags, FLAG_APPSTORE) <=> IsAppStoreListResponse(ring[i].data)

\* C9: a write gets the XXXX overwrite if and only if the probe set
\* FLAG_APPSTORE on it; every flagged write is overwritten.
C9_FlagIffOverwrite ==
    ubuf.ran => (HasFlag(ubuf.flags, FLAG_APPSTORE) <=> ubuf.poke # NoPos)

\* C37: the data of an event flagged FLAG_APPSTORE are the bytes the caller's
\* buffer held before the probe's overwrite, so the reqid ExtractReqID parses from
\* them is the one T_SAC wrote.
C37_CopyBeforeOverwrite ==
    (ubuf.ran /\ ubuf.emit /\ ring # <<>> /\ HasFlag(ring[1].flags, FLAG_APPSTORE)) =>
        /\ ring[1].data = Take(ubuf.data, ring[1].data_len)
        /\ ~ExtractReqID(ring[1].data).err =>
              ExtractReqID(ring[1].data).reqID = ubuf.data.json.reqid

\* A flagged event whose buffer was overwritten and whose reqid parses.
C37_Witness ==
    /\ ubuf.ran
    /\ ring # <<>>
    /\ HasFlag(ring[1].flags, FLAG_APPSTORE)
    /\ ubuf.poke # NoPos
    /\ ~ExtractReqID(ring[1].data).err
    /\ Poked(ubuf.data, ubuf.poke).json.reqid # ubuf.data.json.reqid

\* The offset of the first double quote at or after offset pos of the buffer.
ClosingQuote(d, pos) == pos + Len(ValueFrom(d.text, pos - Len(d.pre)))

\* C38: the four bytes the probe overwrites lie between the quotes of the reqid
\* value and inside the bytes of the write.
C38_InsideReqid ==
    (ubuf.ran /\ ubuf.poke # NoPos) =>
        /\ ubuf.poke - 24 >= Len(ubuf.data.pre)
        /\ ubuf.poke + 4 <= ClosingQuote(ubuf.data, ubuf.poke - 24)
        /\ ubuf.poke + 4 <= DataLen(ubuf.data)

=============================================================================
